---- MODULE Spec2Model ----
(***************************************************************************)
(* Open Rooms Chat (ORC) demo servers: the message streams, tickets and    *)
(* subscription hub of                                                     *)
(*   - bun-server-implementation (handleRequest, state.ts, ws.ts),         *)
(*   - server-bun, first variant (handle, class DB of inmemory.ts),        *)
(*   - server-bun, second variant (createApi, class InMemoryStore).        *)
(* Identifiers (random Base32 strings in the code) are modelled as small   *)
(* naturals handed out in order; 0 stands for "none".                      *)
(***************************************************************************)
EXTENDS Integers, Sequences, FiniteSets, TLC

\* ------------------------------------------------------------------ bounds
MaxUsers == 2
MaxRooms == 1
MaxMsgs == 2
MaxHandlers == 2
MaxSessions == 1
MaxTicks == 1
MaxTicketTicks == 3
MaxTickets == 2
MaxReactMsgs == 1
MaxNamedRooms == 2
MaxCountObjs == 3
MaxStoreRooms == 3
MaxAcks == 2
MaxAckSeq == 2
MaxPings == 3
MaxHelloRooms == 2
MaxDbCount == 3

\* ------------------------------------------------------- program constants
HeartbeatMs == 30000
TtlMs == 60000

Users == 1..MaxUsers
NoUser == 0
Rooms == 1..MaxRooms
NoRoom == 0
MsgIds == 1..MaxMsgs
Handlers == 1..MaxHandlers
Sessions == 1..MaxSessions
Tickets == 1..MaxTickets
NoTicket == 0
NoTs == -1

VARIABLES
  now,           \* wall clock, in ms (Date.now() / nowTs())
  nextId,        \* number of message ids handed out by the id generators
  nextTicket,    \* number of ticket ids handed out by the id generators
  users,         \* state.ts users / tokens: the users holding a guest token
  roomMembers,   \* state.ts roomMembers: room -> (user -> role); DOMAIN = rooms
  roomMessages,  \* state.ts roomMessages: room -> log
  roomNextSeq,   \* state.ts roomNextSeq
  dmPairs,       \* state.ts dmPairs: pairKey -> log
  dmNextSeq,     \* state.ts dmNextSeq
  sockets,       \* ws.ts hub.allSockets: session -> ws.data
  byRoom,        \* ws.ts hub.byRoom
  byUserDM,      \* ws.ts hub.byUserDM
  wsTickets,     \* state.ts wsTickets: ticket -> {user_id, expires_at, used}
  reqs,          \* handleRequest invocations suspended at an await
  dbMessages,    \* inmemory.ts DB: the messages of room "general" (also msgById)
  dbNextSeq,     \* inmemory.ts DB: nextSeq of room "general"
  dbTickets,     \* inmemory.ts DB.tickets
  storeRooms,    \* InMemoryStore.rooms: canonical name -> room, its members included
  storeMessages, \* InMemoryStore.messages of room "general"
  storeSeq,      \* InMemoryStore.seq of room "general"
  storeTickets,  \* InMemoryStore.tickets
  storeSockets,  \* InMemoryStore.sockets: user -> number of open sockets
  apiReqs,       \* createApi handler invocations suspended at an await
  granted,       \* per server and ticket, the times at which a validation returned a user
  last,          \* the operation of the last step and its response
  sent,          \* the frames handed to ws.send by the last step, in order
  reacted,       \* per message, emoji and user, the last reaction request served
  rooms,         \* state.ts rooms: room_id -> room
  roomByName,    \* state.ts roomByName: normalized name -> room_id
  countsHeap,    \* the counts objects of the rooms; a room holds the index of its own
  roomCursors,   \* state.ts roomCursors: room_id -> (user_id -> seq)
  dmCursors,     \* state.ts dmCursors: pairKey -> (user_id -> seq)
  storeCursors,  \* InMemoryStore.roomCursors: user_id -> (room -> seq)
  acked,         \* per stream and user, the seqs of the acks answered 204, in order
  received,      \* the event.message.create frames handed to ws.send so far, in order
  broken,        \* ws.ts: the sockets of hub.allSockets whose ws.send throws
  storeBroken,   \* InMemoryStore.sockets: the sockets whose ws.send throws
  timers,        \* ws.ts attachSocket: the sockets whose heartbeat interval is set
  storeTimers,   \* createWsApi onOpen: the sockets whose ws.data.heartbeat is set
  unanswered,    \* per socket of the hub, the pings sent to it since its last pong
  storeUnanswered, \* the same per socket of InMemoryStore.sockets
  profiles,      \* state.ts users: key -> user record
  pinned,        \* state.ts rooms: room_id -> the room's pinned_message_ids
  closed,        \* ws.ts: the sockets whose close event has happened
  storeClosed    \* createWsApi: the sockets whose close event has happened

hubVars == <<sockets, byRoom, byUserDM>>
streamVars == <<roomMessages, roomNextSeq, dmPairs, dmNextSeq>>
bunVars == <<users, roomMembers, streamVars, hubVars, wsTickets, reqs>>
dbVars == <<dbMessages, dbNextSeq, dbTickets>>
storeVars == <<storeRooms, storeMessages, storeSeq, storeTickets, storeSockets, apiReqs>>
histVars == <<acked, received>>
faultVars == <<broken, storeBroken>>
hbVars == <<timers, storeTimers, unanswered, storeUnanswered>>
recVars == <<profiles, pinned>>
closeVars == <<closed, storeClosed>>
extVars == <<reacted, rooms, roomByName, countsHeap, roomCursors, dmCursors, storeCursors,
             histVars, faultVars, hbVars, recVars, closeVars>>
vars == <<now, nextId, nextTicket, bunVars, dbVars, storeVars, granted, last, sent, extVars>>

\* ------------------------------------------------------------------ helpers
Max(a, b) == IF a >= b THEN a ELSE b
Min(a, b) == IF a <= b THEN a ELSE b

RECURSIVE SetToSeq(_)
SetToSeq(S) ==
  IF S = {} THEN <<>>
  ELSE LET x == CHOOSE y \in S : \A z \in S : y <= z
       IN <<x>> \o SetToSeq(S \ {x})

\* { ...a, ...b }
Spread(a, b) ==
  [f \in DOMAIN a \cup DOMAIN b |-> IF f \in DOMAIN b THEN b[f] ELSE a[f]]

\* Map.set(k, v)
Put(f, k, v) == [x \in DOMAIN f \cup {k} |-> IF x = k THEN v ELSE f[x]]

\* readJson gives undefined for a non-JSON content type or an unparsable body
NoBody == [nojson |-> TRUE]
IsJson(body) == "nojson" \notin DOMAIN body

Idle == [pc |-> "idle"]
NoLast == [op |-> "none", status |-> 0]
\* invocation h takes the next request: the lowest-numbered one not suspended
Free(table, h) == table[h] = Idle /\ \A g \in 1..(h - 1) : table[g] # Idle
Response(op, status) == [op |-> op, status |-> status]
\* the response to an upgrade request, with the tickets the request presented
\* and the one its validation consumed
RtmResponse(op, status, presented, ticket, origin) ==
  Spread(Response(op, status),
         [presented |-> presented \ {NoTicket}, ticket |-> ticket, origin |-> origin])

\* state.ts pairKey
pairKey(a, b) == IF a < b THEN <<a, b>> ELSE <<b, a>>

\* state.ts nowTs() and utils.ts nowIso(): the wall clock at the call, its
\* milliseconds dropped
nowTs == (now \div 1000) * 1000

\* util.ts nowIso() of the second server-bun variant keeps the milliseconds
nowIso == now

\* ------------------------------------------------------------ ws.ts (hub)
Frames(targets, frame) ==
  [i \in 1..Len(targets) |-> Spread(frame, [to |-> targets[i]])]

\* the frames of a step as the server's sockets received them
Tagged(server, frames) ==
  [i \in 1..Len(frames) |-> Spread(frames[i], [server |-> server])]

\* try { ws.send(frame); } catch {}: the sockets of targets whose send returned
Absorbed(targets) == SelectSeq(targets, LAMBDA s : s \notin broken)

RoomSubscribers(room) ==
  IF room \in DOMAIN byRoom THEN Absorbed(SetToSeq(byRoom[room])) ELSE <<>>

broadcastRoomMessage(room, message) ==
  Frames(RoomSubscribers(room), [type |-> "event.message.create", message |-> message])

broadcastRoomEdit(room, message) ==
  Frames(RoomSubscribers(room), [type |-> "event.message.edit", message |-> message])

broadcastRoomDelete(room, message_id, ts) ==
  Frames(RoomSubscribers(room),
         [type |-> "event.message.delete", message_id |-> message_id,
          room_id |-> room, ts |-> ts])

\* a DM publish to every socket of the hub, whoever its user
EverySocket(uid) == Absorbed(SetToSeq(DOMAIN sockets))

DmSubscribers(uid) ==
  IF uid \in DOMAIN byUserDM THEN Absorbed(SetToSeq(byUserDM[uid])) ELSE <<>>

broadcastDmMessage(toA, toB, message) ==
  Frames(DmSubscribers(toA) \o DmSubscribers(toB),
         [type |-> "event.message.create", message |-> message])

\* a join that never leaves: rooms dropped from the hello keep the socket
KeptRooms(s, d) ==
  [r \in DOMAIN byRoom \cup d.rooms |->
     (IF r \in DOMAIN byRoom THEN byRoom[r] ELSE {}) \cup (IF r \in d.rooms THEN {s} ELSE {})]

\* updateSubscriptions(ws), for the socket s whose data is d
SubscribedRooms(s, d) ==
  [r \in DOMAIN byRoom \cup d.rooms |->
     IF r \in d.rooms
       THEN (IF r \in DOMAIN byRoom THEN byRoom[r] ELSE {}) \cup {s}
       ELSE byRoom[r] \ {s}]

SubscribedDMs(s, d) ==
  IF d.dms
    THEN Put(byUserDM, d.user_id,
             (IF d.user_id \in DOMAIN byUserDM THEN byUserDM[d.user_id] ELSE {}) \cup {s})
    ELSE [u \in DOMAIN byUserDM |->
            IF u = d.user_id THEN byUserDM[u] \ {s} ELSE byUserDM[u]]

\* attachSocket, then updateSubscriptions, as the websocket open handler runs them
attachSocket(s, user_id) ==
  LET d == [user_id |-> user_id, rooms |-> {}, dms |-> FALSE]
  IN /\ sockets' = Put(sockets, s, d)
     /\ byRoom' = SubscribedRooms(s, d)
     /\ byUserDM' = SubscribedDMs(s, d)
     /\ timers' = timers \cup {s}
     /\ unanswered' = Put(unanswered, s, 0)
     /\ closed' = closed \ {s}
     /\ sent' = <<[to |-> s, type |-> "ready"]>>

\* ws.onmessage, a hello frame
Hello(s, subs, dms) ==
  /\ s \in DOMAIN sockets /\ s \notin closed
  /\ LET d == [user_id |-> sockets[s].user_id, rooms |-> subs, dms |-> dms]
     IN /\ sockets' = [sockets EXCEPT ![s] = d]
        /\ IF s \in broken
             THEN \* ws.send throws before updateSubscriptions(ws); catch { ignore }
                  /\ UNCHANGED <<byRoom, byUserDM>>
                  /\ sent' = <<>>
             ELSE /\ byRoom' = SubscribedRooms(s, d)
                  /\ byUserDM' = SubscribedDMs(s, d)
                  /\ sent' = <<[to |-> s, type |-> "ready"]>>
  /\ last' = NoLast
  /\ UNCHANGED <<now, nextId, nextTicket, users, roomMembers, streamVars, wsTickets, reqs,
                 dbVars, storeVars, granted, extVars>>

\* ------------------------------------------------------- state.ts, index.ts
\* requireAuth / authedUser: the bearer token resolves to a user, or to none
Authed(caller) == caller \in users

\* POST /auth/guest
AuthGuest ==
  /\ Cardinality(users) < MaxUsers
  /\ users' = users \cup {Cardinality(users) + 1}
  /\ profiles' = Put(profiles, Cardinality(users) + 1,
                     [user_id |-> Cardinality(users) + 1, display_name |-> "guest"])
  /\ last' = Response("guest", 200)
  /\ sent' = <<>>
  /\ UNCHANGED <<now, nextId, nextTicket, roomMembers, streamVars, hubVars, wsTickets, reqs,
                 dbVars, storeVars, granted, reacted, rooms, roomByName, countsHeap,
                 roomCursors, dmCursors, storeCursors, histVars, faultVars, hbVars, pinned, closeVars>>

\* String.prototype.toLowerCase, on the names the requests carry
toLowerCase(name) == CASE name = "A" -> "a" [] name = "B" -> "b" [] OTHER -> name

\* state.ts normalizeRoomName: name.trim().toLowerCase(); no name here has spaces
normalizeRoomName(name) == toLowerCase(name)

\* !body || !body.name || !body.visibility
ValidCreate(body) ==
  /\ IsJson(body)
  /\ "name" \in DOMAIN body /\ body.name # ""
  /\ "visibility" \in DOMAIN body /\ body.visibility # ""

\* state.ts createRoom: the room built; counts is the index of its counts object
Room(room_id, owner_id, body, counts) ==
  [room_id |-> room_id, name |-> body.name,
   topic |-> IF "topic" \in DOMAIN body THEN body.topic ELSE "",
   visibility |-> body.visibility, owner_id |-> owner_id, counts |-> counts]

\* POST /rooms, from the first line to the response: the body is awaited before
\* any state is read, and state.ts createRoom runs without suspending
PostRooms(caller, body, maxRooms) ==
  /\ Cardinality(DOMAIN rooms) < maxRooms
  /\ IF ~Authed(caller)
       THEN /\ last' = Response("create_room", 401)
            /\ UNCHANGED <<rooms, roomByName, countsHeap, roomMembers, roomMessages,
                           roomNextSeq, roomCursors, pinned>>
       ELSE IF ~ValidCreate(body)
       THEN /\ last' = Response("create_room", 400)
            /\ UNCHANGED <<rooms, roomByName, countsHeap, roomMembers, roomMessages,
                           roomNextSeq, roomCursors, pinned>>
       ELSE IF normalizeRoomName(body.name) \in DOMAIN roomByName
       THEN /\ last' = Response("create_room", 409)
            /\ UNCHANGED <<rooms, roomByName, countsHeap, roomMembers, roomMessages,
                           roomNextSeq, roomCursors, pinned>>
       ELSE LET room_id == Cardinality(DOMAIN rooms) + 1
            IN /\ countsHeap' = Append(countsHeap, 1)
               /\ rooms' = Put(rooms, room_id, Room(room_id, caller, body, Len(countsHeap) + 1))
               /\ roomByName' = Put(roomByName, normalizeRoomName(body.name), room_id)
               /\ roomMembers' = Put(roomMembers, room_id, [u \in {caller} |-> "owner"])
               /\ roomMessages' = Put(roomMessages, room_id, <<>>)
               /\ roomNextSeq' = Put(roomNextSeq, room_id, 1)
               /\ roomCursors' = Put(roomCursors, room_id, <<>>)
               /\ pinned' = Put(pinned, room_id, <<>>)
               /\ last' = Response("create_room", 201)
  /\ sent' = <<>>
  /\ UNCHANGED <<now, nextId, nextTicket, users, dmPairs, dmNextSeq, hubVars, wsTickets, reqs,
                 dbVars, storeVars, granted, reacted, dmCursors, storeCursors, histVars, faultVars, hbVars,
                 profiles, closeVars>>

\* POST /rooms with a well-formed body and a free name
DefaultRoom == [name |-> "room", visibility |-> "public"]
createRoom(caller) == PostRooms(caller, DefaultRoom, MaxRooms)

\* Map.delete(k)
Remove(f, k) == [x \in DOMAIN f \ {k} |-> f[x]]

\* PATCH /rooms/{id}, up to `await readJson(req)`
PatchRoomBegin(h, caller, room_id) ==
  /\ Free(reqs, h)
  /\ IF room_id \notin DOMAIN rooms
       THEN last' = Response("patch_room", 404) /\ UNCHANGED reqs
       ELSE IF ~Authed(caller)
       THEN last' = Response("patch_room", 401) /\ UNCHANGED reqs
       ELSE /\ reqs' = [reqs EXCEPT ![h] = [pc |-> "patch_room", caller |-> caller,
                                              room_id |-> room_id, room |-> rooms[room_id]]]
            /\ last' = NoLast
  /\ sent' = <<>>
  /\ UNCHANGED <<now, nextId, nextTicket, users, roomMembers, streamVars, hubVars, wsTickets,
                 dbVars, storeVars, granted, extVars>>

\* body.name && normalizeRoomName(body.name) !== normalizeRoomName(room.name)
Renames(room, body) ==
  /\ "name" \in DOMAIN body /\ body.name # ""
  /\ normalizeRoomName(body.name) # normalizeRoomName(room.name)

\* { ...room, ...body }: a counts object in the body is a new object, at index
\* fresh; the room's own counts object is shared by every copy of the room
PatchedRoom(room, body, fresh) ==
  IF "counts" \in DOMAIN body
    THEN Spread(Spread(room, body), [counts |-> fresh])
    ELSE Spread(room, body)

\* PATCH /rooms/{id}, from the body to the response
PatchRoomFinish(h, body) ==
  /\ reqs[h].pc = "patch_room"
  /\ "counts" \in DOMAIN body => Len(countsHeap) < MaxCountObjs
  /\ LET r == reqs[h]
     IN IF ~IsJson(body)
          THEN /\ last' = Response("patch_room", 400)
               /\ UNCHANGED <<rooms, roomByName, countsHeap>>
          ELSE IF Renames(r.room, body) /\ normalizeRoomName(body.name) \in DOMAIN roomByName
          THEN /\ last' = Response("patch_room", 409)
               /\ UNCHANGED <<rooms, roomByName, countsHeap>>
          ELSE /\ roomByName' =
                    IF Renames(r.room, body)
                      THEN Put(Remove(roomByName, normalizeRoomName(r.room.name)),
                               normalizeRoomName(body.name), r.room.room_id)
                      ELSE roomByName
               /\ countsHeap' = IF "counts" \in DOMAIN body
                                  THEN Append(countsHeap, body.counts.members)
                                  ELSE countsHeap
               /\ rooms' = Put(rooms, r.room_id,
                               PatchedRoom(r.room, body, Len(countsHeap) + 1))
               /\ last' = Response("patch_room", 200)
  /\ reqs' = [reqs EXCEPT ![h] = Idle]
  /\ sent' = <<>>
  /\ UNCHANGED <<now, nextId, nextTicket, users, roomMembers, streamVars, hubVars, wsTickets,
                 dbVars, storeVars, granted, reacted, roomCursors, dmCursors, storeCursors, histVars, faultVars, hbVars, recVars, closeVars>>

\* state.ts addMember: the membership maps it leaves
addMember(room_id, user_id) ==
  IF room_id \notin DOMAIN roomMembers
    THEN Put(roomMembers, room_id, [u \in {user_id} |-> "member"])
  ELSE IF user_id \in DOMAIN roomMembers[room_id] THEN roomMembers
  ELSE [roomMembers EXCEPT ![room_id] = Put(@, user_id, "member")]

\* a join that does not touch counts.members
CountKept(room_id, user_id) == countsHeap

\* state.ts addMember: r.counts.members += 1 for a user who was no member
MemberCounted(room_id, user_id) ==
  IF /\ room_id \in DOMAIN rooms
     /\ ~(room_id \in DOMAIN roomMembers /\ user_id \in DOMAIN roomMembers[room_id])
    THEN [countsHeap EXCEPT ![rooms[room_id].counts] = @ + 1]
    ELSE countsHeap

\* state.ts removeMember: the membership maps it leaves
removeMember(room_id, user_id) ==
  IF room_id \in DOMAIN roomMembers
    THEN [roomMembers EXCEPT ![room_id] = Remove(@, user_id)]
    ELSE roomMembers

\* state.ts removeMember: r.counts.members -= 1 when a member was removed
MemberUncounted(room_id, user_id) ==
  IF /\ room_id \in DOMAIN roomMembers /\ user_id \in DOMAIN roomMembers[room_id]
     /\ room_id \in DOMAIN rooms /\ countsHeap[rooms[room_id].counts] > 0
    THEN [countsHeap EXCEPT ![rooms[room_id].counts] = @ - 1]
    ELSE countsHeap

\* POST /rooms/{id}/join
JoinRoom(caller, room_id) ==
  /\ IF ~Authed(caller)
       THEN last' = Response("join", 401) /\ UNCHANGED <<roomMembers, countsHeap>>
       ELSE /\ roomMembers' = addMember(room_id, caller)
            /\ countsHeap' = MemberCounted(room_id, caller)
            /\ last' = Response("join", 204)
  /\ sent' = <<>>
  /\ UNCHANGED <<now, nextId, nextTicket, users, streamVars, hubVars, wsTickets, reqs,
                 dbVars, storeVars, granted, reacted, rooms, roomByName, roomCursors,
                 dmCursors, storeCursors, histVars, faultVars, hbVars, recVars, closeVars>>

\* POST /rooms/{id}/invite, from the first line to the response: the body is
\* awaited before any state is read
InviteToRoom(caller, room_id, body) ==
  /\ IF ~Authed(caller)
       THEN last' = Response("invite", 401) /\ UNCHANGED <<roomMembers, countsHeap>>
       ELSE IF ~(IsJson(body) /\ "user_id" \in DOMAIN body /\ body.user_id # NoUser)
       THEN last' = Response("invite", 400) /\ UNCHANGED <<roomMembers, countsHeap>>
       ELSE /\ roomMembers' = addMember(room_id, body.user_id)
            /\ countsHeap' = MemberCounted(room_id, body.user_id)
            /\ last' = Response("invite", 204)
  /\ sent' = <<>>
  /\ UNCHANGED <<now, nextId, nextTicket, users, streamVars, hubVars, wsTickets, reqs,
                 dbVars, storeVars, granted, reacted, rooms, roomByName, roomCursors,
                 dmCursors, storeCursors, histVars, faultVars, hbVars, recVars, closeVars>>

\* POST /rooms/{id}/leave
LeaveRoom(caller, room_id) ==
  /\ IF ~Authed(caller)
       THEN last' = Response("leave", 401) /\ UNCHANGED <<roomMembers, countsHeap>>
       ELSE /\ roomMembers' = removeMember(room_id, caller)
            /\ countsHeap' = MemberUncounted(room_id, caller)
            /\ last' = Response("leave", 204)
  /\ sent' = <<>>
  /\ UNCHANGED <<now, nextId, nextTicket, users, streamVars, hubVars, wsTickets, reqs,
                 dbVars, storeVars, granted, reacted, rooms, roomByName, roomCursors,
                 dmCursors, storeCursors, histVars, faultVars, hbVars, recVars, closeVars>>

\* the wall clock advances by one heartbeat period, at most maxTicks times
Tick(maxTicks) ==
  /\ now < maxTicks * HeartbeatMs
  /\ now' = now + HeartbeatMs
  /\ last' = NoLast
  /\ sent' = <<>>
  /\ UNCHANGED <<nextId, nextTicket, bunVars, dbVars, storeVars, granted, extVars>>

\* ------------------------------------------------- index.ts: room messages
Message(id, room, peer, author, seq, ts, body) ==
  [message_id |-> id, room_id |-> room, dm_peer_id |-> peer, author_id |-> author,
   seq |-> seq, ts |-> ts,
   parent_id |-> IF "parent_id" \in DOMAIN body THEN body.parent_id ELSE 0,
   text |-> body.text, tombstone |-> FALSE, reactions |-> <<>>, edited_at |-> NoTs]

\* !body?.text
HasText(body) == IsJson(body) /\ "text" \in DOMAIN body /\ body.text # ""

\* the seq a post takes and the counter it leaves
AllocSeq(counter) == IF counter = 0 THEN 1 ELSE counter
\* a counter left where it was: two posts would share a seq
SameCounter(seq) == seq
NextCounter(seq) == seq + 1

\* POST /rooms/{id}/messages, up to `await readJson(req)`
PostRoomBegin(h, caller, room) ==
  /\ Free(reqs, h)
  /\ IF room \notin DOMAIN roomMembers
       THEN last' = Response("post_room", 404) /\ UNCHANGED reqs
       ELSE IF ~Authed(caller)
       THEN last' = Response("post_room", 401) /\ UNCHANGED reqs
       ELSE /\ reqs' = [reqs EXCEPT ![h] = [pc |-> "post_room", caller |-> caller,
                                              room |-> room]]
            /\ last' = NoLast
  /\ sent' = <<>>
  /\ UNCHANGED <<now, nextId, nextTicket, users, roomMembers, streamVars, hubVars, wsTickets,
                 dbVars, storeVars, granted, extVars>>

\* POST /rooms/{id}/messages, from the body to the response
PostRoomFinish(h, body) ==
  /\ reqs[h].pc = "post_room"
  /\ LET r == reqs[h]
     IN IF ~HasText(body)
          THEN /\ last' = Response("post_room", 400)
               /\ sent' = <<>>
               /\ UNCHANGED <<nextId, streamVars>>
          ELSE LET seq == AllocSeq(roomNextSeq[r.room])
                   msg == Message(nextId + 1, r.room, NoUser, r.caller, seq, nowTs, body)
               IN /\ nextId < MaxMsgs
                  /\ nextId' = nextId + 1
                  /\ roomNextSeq' = [roomNextSeq EXCEPT ![r.room] = NextCounter(seq)]
                  /\ roomMessages' = [roomMessages EXCEPT ![r.room] = Append(@, msg)]
                  /\ sent' = broadcastRoomMessage(r.room, msg)
                  /\ last' = Response("post_room", 201)
                  /\ UNCHANGED <<dmPairs, dmNextSeq>>
  /\ reqs' = [reqs EXCEPT ![h] = Idle]
  /\ received' = received \o Tagged("bun", sent')
  /\ UNCHANGED <<now, nextTicket, users, roomMembers, hubVars, wsTickets,
                 dbVars, storeVars, granted, reacted, rooms, roomByName, countsHeap,
                 roomCursors, dmCursors, storeCursors, acked, faultVars, hbVars, recVars, closeVars>>

\* for (const [room_id, arr] of roomMessages) arr.findIndex(m => m.message_id === id)
Located(mid) ==
  {<<r, i>> \in (DOMAIN roomMessages) \X (1..MaxMsgs) :
      i <= Len(roomMessages[r]) /\ roomMessages[r][i].message_id = mid}
FindMsg(mid) ==
  IF Located(mid) = {} THEN <<NoRoom, 0>>
  ELSE CHOOSE p \in Located(mid) :
         \A q \in Located(mid) : p[1] < q[1] \/ (p[1] = q[1] /\ p[2] <= q[2])

\* no author check: every authenticated caller could edit
AnyoneMayEdit(existing, caller) == TRUE

\* PATCH /messages/{id}: existing.author_id !== u.user_id is refused
MayEdit(existing, caller) == existing.author_id = caller

\* a handler's reference to the message object it found: id 0 while that object
\* is still the one stored in the array, otherwise the number of the detached
\* object and its fields
Live == [id |-> 0]

\* the handlers suspended at `await readJson(req)` that hold a message object
InFlight(table) == {g \in DOMAIN table : table[g].pc \in {"patch", "react"}}

\* existing / msg as the handler sees it after the await
Held(r) == IF r.held.id = 0 THEN roomMessages[r.room][r.idx] ELSE r.held.obj

\* a number for an object that leaves the array while handlers still hold it
FreshObj(table) ==
  LET used == {table[g].held.id : g \in InFlight(table)}
  IN CHOOSE n \in 1..(Cardinality(used) + 1) :
       n \notin used /\ \A m \in 1..(n - 1) : m \in used

\* arr[idx] = <a new object>: the handlers that found the object stored so far
\* keep it, detached from the array
Replaced(table, room, idx) ==
  [g \in DOMAIN table |->
     IF g \in InFlight(table) /\ table[g].held.id = 0
        /\ table[g].room = room /\ table[g].idx = idx
       THEN [table[g] EXCEPT !.held = [id |-> FreshObj(table),
                                        obj |-> roomMessages[room][idx]]]
       ELSE table[g]]

\* PATCH /messages/{id}, up to `await readJson(req)`
PatchBegin(h, caller, mid) ==
  LET at == FindMsg(mid)
  IN /\ Free(reqs, h)
     /\ IF at[1] = NoRoom
          THEN last' = Response("patch", 404) /\ UNCHANGED reqs
          ELSE IF ~Authed(caller)
          THEN last' = Response("patch", 401) /\ UNCHANGED reqs
          ELSE IF ~MayEdit(roomMessages[at[1]][at[2]], caller)
          THEN last' = Response("patch", 403) /\ UNCHANGED reqs
          ELSE /\ reqs' = [reqs EXCEPT ![h] =
                             [pc |-> "patch", caller |-> caller, room |-> at[1],
                              idx |-> at[2], held |-> Live]]
               /\ last' = NoLast
     /\ sent' = <<>>
     /\ UNCHANGED <<now, nextId, nextTicket, users, roomMembers, streamVars, hubVars,
                    wsTickets, dbVars, storeVars, granted, extVars>>

\* { ...existing, ...body, edited_at: nowTs() }
Edited(existing, body, ts) == Spread(Spread(existing, body), [edited_at |-> ts])

\* PATCH /messages/{id}, from the body to the response; the spread reads the
\* object found before the await as it is now
PatchFinish(h, body) ==
  /\ reqs[h].pc = "patch"
  /\ LET r == reqs[h]
     IN IF ~IsJson(body)
          THEN /\ last' = Response("patch", 400)
               /\ sent' = <<>>
               /\ reqs' = [reqs EXCEPT ![h] = Idle]
               /\ UNCHANGED roomMessages
          ELSE LET updated == Edited(Held(r), body, nowTs)
               IN /\ roomMessages' = [roomMessages EXCEPT ![r.room][r.idx] = updated]
                  /\ reqs' = Replaced([reqs EXCEPT ![h] = Idle], r.room, r.idx)
                  /\ sent' = broadcastRoomEdit(r.room, updated)
                  /\ last' = Response("patch", 200)
  /\ UNCHANGED <<now, nextId, nextTicket, users, roomMembers, roomNextSeq, dmPairs, dmNextSeq,
                 hubVars, wsTickets, dbVars, storeVars, granted, extVars>>

\* { ...existing, tombstone: true, ts: nowTs() }
Deleted(existing, ts) == Spread(existing, [tombstone |-> TRUE, ts |-> ts])

\* DELETE /messages/{id}
DeleteMessage(caller, mid) ==
  LET at == FindMsg(mid)
  IN /\ IF at[1] = NoRoom
          THEN /\ last' = Response("delete", 404)
               /\ sent' = <<>>
               /\ UNCHANGED <<roomMessages, reqs>>
          ELSE LET deleted == Deleted(roomMessages[at[1]][at[2]], nowTs)
               IN /\ roomMessages' = [roomMessages EXCEPT ![at[1]][at[2]] = deleted]
                  /\ reqs' = Replaced(reqs, at[1], at[2])
                  /\ sent' = broadcastRoomDelete(at[1], mid, deleted.ts)
                  /\ last' = Response("delete", 200)
     /\ UNCHANGED <<now, nextId, nextTicket, users, roomMembers, roomNextSeq, dmPairs,
                    dmNextSeq, hubVars, wsTickets, dbVars, storeVars, granted, extVars>>

\* ----------------------------------------------------- index.ts: reactions
broadcastRoomReaction(room, message_id, emoji, counts) ==
  Frames(RoomSubscribers(room),
         [type |-> "event.reaction.add", message_id |-> message_id, emoji |-> emoji,
          counts |-> counts])

\* !body?.emoji
HasEmoji(body) == IsJson(body) /\ "emoji" \in DOMAIN body /\ body.emoji # ""

\* the _react maps that a stored or a held message object refers to
MapIds ==
  {roomMessages[p[1]][p[2]].react.id :
     p \in {q \in (DOMAIN roomMessages) \X (1..MaxMsgs) :
               /\ q[2] <= Len(roomMessages[q[1]])
               /\ "react" \in DOMAIN roomMessages[q[1]][q[2]]}}
  \cup {reqs[g].held.obj.react.id :
          g \in {f \in InFlight(reqs) : /\ reqs[f].held.id # 0
                                         /\ "react" \in DOMAIN reqs[f].held.obj}}

\* a number for a new Map
FreshMap ==
  CHOOSE n \in 1..(Cardinality(MapIds) + 1) :
    n \notin MapIds /\ \A m \in 1..(n - 1) : m \in MapIds

\* anyMsg._react, a Map in insertion order that every spread copy of the message
\* shares: a new empty one when the message has none yet
ReactMap(m) == IF "react" \in DOMAIN m THEN m.react ELSE [id |-> FreshMap, map |-> <<>>]

\* a message object after Map k changed to map
Remapped(m, k, map) ==
  IF "react" \in DOMAIN m /\ m.react.id = k THEN [m EXCEPT !.react.map = map] ELSE m

\* _react.get(emoji): the index of the entry, 0 when there is none
ReactAt(map, emoji) ==
  IF \E i \in 1..Len(map) : map[i].emoji = emoji
    THEN CHOOSE i \in 1..Len(map) : map[i].emoji = emoji
    ELSE 0

\* an add that is lost: the user is not recorded
NotAdded(set, user) == set

\* set.add(user_id) on a Set of user ids
Added(set, user) == set \cup {user}

\* POST: the entry of the emoji is created when missing, and the user added
ReactAdded(map, emoji, user) ==
  LET ensured == IF ReactAt(map, emoji) = 0
                   THEN Append(map, [emoji |-> emoji, users |-> {}]) ELSE map
  IN [ensured EXCEPT ![ReactAt(ensured, emoji)].users = Added(@, user)]

\* DELETE: set?.delete(user_id)
ReactRemoved(map, emoji, user) ==
  IF ReactAt(map, emoji) = 0 THEN map
  ELSE [map EXCEPT ![ReactAt(map, emoji)].users = @ \ {user}]

\* [..._react.entries()].map(([emoji, s]) => ({ emoji, count: s.size, me? }))
Reactions(map, emoji, user) ==
  [i \in 1..Len(map) |->
     IF map[i].emoji = emoji
       THEN [emoji |-> map[i].emoji, count |-> Cardinality(map[i].users),
             me |-> user \in map[i].users]
       ELSE [emoji |-> map[i].emoji, count |-> Cardinality(map[i].users)]]

\* reactions.map(r => ({ emoji: r.emoji, count: r.count }))
Counts(reactions) ==
  [i \in 1..Len(reactions) |-> [emoji |-> reactions[i].emoji, count |-> reactions[i].count]]

\* POST or DELETE /messages/{id}/reactions, up to `await readJson(req)`; the
\* message found is given its _react map before the await
ReactBegin(h, caller, mid, method) ==
  LET at == FindMsg(mid)
  IN /\ Free(reqs, h)
     /\ IF ~Authed(caller)
          THEN last' = Response("react", 401) /\ UNCHANGED <<reqs, roomMessages>>
          ELSE IF at[1] = NoRoom
          THEN last' = Response("react", 404) /\ UNCHANGED <<reqs, roomMessages>>
          ELSE /\ roomMessages' =
                    [roomMessages EXCEPT ![at[1]][at[2]] =
                       Spread(@, [react |-> ReactMap(roomMessages[at[1]][at[2]])])]
               /\ reqs' = [reqs EXCEPT ![h] = [pc |-> "react", caller |-> caller,
                                                 room |-> at[1], idx |-> at[2],
                                                 mid |-> mid, method |-> method,
                                                 held |-> Live]]
               /\ last' = NoLast
     /\ sent' = <<>>
     /\ UNCHANGED <<now, nextId, nextTicket, users, roomMembers, roomNextSeq, dmPairs,
                    dmNextSeq, hubVars, wsTickets, dbVars, storeVars, granted, extVars>>

\* POST or DELETE /messages/{id}/reactions, from the body to the response; msg is
\* the object found before the await, which is the stored one as long as no edit
\* or delete replaced it meanwhile: the Map changes for every object that shares
\* it, msg.reactions only on msg
ReactFinish(h, body) ==
  /\ reqs[h].pc = "react"
  /\ LET r == reqs[h]
         msg == Held(r)
     IN IF ~HasEmoji(body)
          THEN /\ last' = Response("react", 400)
               /\ sent' = <<>>
               /\ reqs' = [reqs EXCEPT ![h] = Idle]
               /\ UNCHANGED <<roomMessages, reacted, faultVars>>
          ELSE LET map == IF r.method = "POST"
                            THEN ReactAdded(msg.react.map, body.emoji, r.caller)
                            ELSE ReactRemoved(msg.react.map, body.emoji, r.caller)
                   reactions == Reactions(map, body.emoji, r.caller)
               IN /\ roomMessages' =
                       [k \in DOMAIN roomMessages |->
                          [i \in 1..Len(roomMessages[k]) |->
                             IF r.held.id = 0 /\ k = r.room /\ i = r.idx
                               THEN Spread(Remapped(roomMessages[k][i], msg.react.id, map),
                                           [reactions |-> reactions])
                               ELSE Remapped(roomMessages[k][i], msg.react.id, map)]]
                  /\ reqs' =
                       [g \in DOMAIN reqs |->
                          IF g = h THEN Idle
                          ELSE IF g \in InFlight(reqs) /\ reqs[g].held.id # 0
                          THEN [reqs[g] EXCEPT !.held.obj =
                                  IF reqs[g].held.id = r.held.id
                                    THEN Spread(Remapped(@, msg.react.id, map),
                                                [reactions |-> reactions])
                                    ELSE Remapped(@, msg.react.id, map)]
                          ELSE reqs[g]]
                  /\ reacted' = Put(reacted, <<r.mid, body.emoji, r.caller>>, r.method)
                  /\ sent' = broadcastRoomReaction(r.room, r.mid, body.emoji, Counts(reactions))
                  /\ last' = Spread(Response("react", 200),
                                    [message_id |-> r.mid, reactions |-> reactions])
  /\ UNCHANGED <<now, nextId, nextTicket, users, roomMembers, roomNextSeq, dmPairs, dmNextSeq,
                 hubVars, wsTickets, dbVars, storeVars, granted, rooms, roomByName,
                 countsHeap, roomCursors, dmCursors, storeCursors, histVars, faultVars, hbVars, recVars, closeVars>>

\* --------------------------------------------------------- index.ts: reads
Absent == -1

\* Math.max(1, Math.min(200, Number(searchParams.get("limit") || 50)))
ClampLimit(raw) == Max(1, Min(200, IF raw = Absent THEN 50 ELSE raw))

Take(arr, n) == SubSeq(arr, 1, Min(n, Len(arr)))
TakeLast(arr, n) == SubSeq(arr, Max(1, Len(arr) - n + 1), Len(arr))
SeqAbove(arr, from) == SelectSeq(arr, LAMBDA m : m.seq > from)
SeqAtLeast(arr, from) == SelectSeq(arr, LAMBDA m : m.seq >= from)
SeqBelow(arr, before) == SelectSeq(arr, LAMBDA m : m.seq < before)

\* arr.filter(m => m.seq >= fromSeq).slice(0, limit), and next_seq
ForwardRead(arr, counter, rawFrom, rawLimit) ==
  LET fromSeq == IF rawFrom = Absent THEN 0 ELSE rawFrom
      slice == Take(SeqAtLeast(arr, fromSeq), ClampLimit(rawLimit))
  IN [messages |-> slice,
      next_seq |-> IF Len(slice) > 0 THEN slice[Len(slice)].seq + 1 ELSE counter]

\* arr.filter(m => m.seq < before).slice(-limit), and prev_seq; without before_seq
\* the bound is Number.MAX_SAFE_INTEGER, above every seq
BackfillRead(arr, rawBefore, rawLimit) ==
  LET below == IF rawBefore = Absent THEN arr ELSE SeqBelow(arr, rawBefore)
      slice == TakeLast(below, ClampLimit(rawLimit))
  IN [messages |-> slice,
      prev_seq |-> IF Len(slice) > 0 THEN slice[1].seq ELSE 0]

\* the stream and the query parameters of a read, kept beside its response
Request(stream, rawFrom, rawLimit) ==
  [stream |-> stream, from_seq |-> rawFrom, limit |-> rawLimit]

\* GET /rooms/{id}/messages
GetRoomMessages(room, rawFrom, rawLimit) ==
  /\ IF room \notin DOMAIN roomMembers
       THEN last' = Response("get_room", 404)
       ELSE last' = Spread(Spread(Response("get_room", 200),
                                  ForwardRead(roomMessages[room], roomNextSeq[room],
                                              rawFrom, rawLimit)),
                           Request(<<"room", room>>, rawFrom, rawLimit))
  /\ sent' = <<>>
  /\ UNCHANGED <<now, nextId, nextTicket, bunVars, dbVars, storeVars, granted, extVars>>

\* GET /rooms/{id}/messages/backfill
GetRoomBackfill(room, rawBefore, rawLimit) ==
  LET arr == IF room \in DOMAIN roomMessages THEN roomMessages[room] ELSE <<>>
  IN /\ last' = Spread(Response("backfill_room", 200),
                       BackfillRead(arr, rawBefore, rawLimit))
     /\ sent' = <<>>
     /\ UNCHANGED <<now, nextId, nextTicket, bunVars, dbVars, storeVars, granted, extVars>>

\* m.text.toLowerCase().includes(q), for texts none of which contains another
Includes(text, q) == text = q

Matches(arr, q) == SelectSeq(arr, LAMBDA m : Includes(m.text, q))

RECURSIVE Concat(_, _)
Concat(f, keys) ==
  IF keys = <<>> THEN <<>> ELSE f[Head(keys)] \o Concat(f, Tail(keys))

\* the keys of dmPairs in insertion order are not kept by the model: ascending
PairLess(p, q) == p[1] < q[1] \/ (p[1] = q[1] /\ p[2] < q[2])
RECURSIVE PairsToSeq(_)
PairsToSeq(S) ==
  IF S = {} THEN <<>>
  ELSE LET x == CHOOSE y \in S : \A z \in S \ {y} : PairLess(y, z)
       IN <<x>> \o PairsToSeq(S \ {x})

\* GET /search/messages
SearchMessages(caller, q, room, peer, rawLimit) ==
  LET inRooms ==
        IF room # NoRoom
          THEN (IF room \in DOMAIN roomMessages THEN Matches(roomMessages[room], q) ELSE <<>>)
          ELSE Concat([r \in DOMAIN roomMessages |-> Matches(roomMessages[r], q)],
                      SetToSeq({r \in DOMAIN roomMessages : caller \in DOMAIN roomMembers[r]}))
      inDms ==
        IF peer # NoUser
          THEN (IF pairKey(caller, peer) \in DOMAIN dmPairs
                  THEN Matches(dmPairs[pairKey(caller, peer)], q) ELSE <<>>)
          ELSE Concat([k \in DOMAIN dmPairs |-> Matches(dmPairs[k], q)],
                      PairsToSeq({k \in DOMAIN dmPairs : k[1] = caller \/ k[2] = caller}))
  IN /\ IF ~Authed(caller)
          THEN last' = Response("search", 401)
          ELSE IF q = ""
          THEN last' = Response("search", 400)
          ELSE last' = Spread(Response("search", 200),
                              [messages |-> Take(inRooms \o inDms, ClampLimit(rawLimit))])
     /\ sent' = <<>>
     /\ UNCHANGED <<now, nextId, nextTicket, bunVars, dbVars, storeVars, granted, extVars>>

\* ----------------------------------------------------- index.ts: DM streams
\* state.ts ensureDmPair
EnsuredPairs(key) == IF key \in DOMAIN dmPairs THEN dmPairs ELSE Put(dmPairs, key, <<>>)
EnsuredNextSeq(key) == IF key \in DOMAIN dmPairs THEN dmNextSeq ELSE Put(dmNextSeq, key, 1)

\* GET /dms/{user_id}/messages
GetDmMessages(caller, peer, rawFrom, rawLimit) ==
  LET key == pairKey(caller, peer)
  IN /\ IF ~Authed(caller)
          THEN last' = Response("get_dm", 401) /\ UNCHANGED <<dmPairs, dmNextSeq>>
          ELSE /\ dmPairs' = EnsuredPairs(key)
               /\ dmNextSeq' = EnsuredNextSeq(key)
               /\ last' = Spread(Spread(Response("get_dm", 200),
                                        ForwardRead(EnsuredPairs(key)[key],
                                                    EnsuredNextSeq(key)[key],
                                                    rawFrom, rawLimit)),
                                 Request(<<"dm", key>>, rawFrom, rawLimit))
     /\ sent' = <<>>
     /\ UNCHANGED <<now, nextId, nextTicket, users, roomMembers, roomMessages, roomNextSeq,
                    hubVars, wsTickets, reqs, dbVars, storeVars, granted, extVars>>

\* POST /dms/{user_id}/messages, up to `await readJson(req)`
PostDmBegin(h, caller, peer) ==
  LET key == pairKey(caller, peer)
  IN /\ Free(reqs, h)
     /\ IF ~Authed(caller)
          THEN last' = Response("post_dm", 401) /\ UNCHANGED <<reqs, dmPairs, dmNextSeq>>
          ELSE /\ dmPairs' = EnsuredPairs(key)
               /\ dmNextSeq' = EnsuredNextSeq(key)
               /\ reqs' = [reqs EXCEPT ![h] = [pc |-> "post_dm", caller |-> caller,
                                                 peer |-> peer, key |-> key]]
               /\ last' = NoLast
     /\ sent' = <<>>
     /\ UNCHANGED <<now, nextId, nextTicket, users, roomMembers, roomMessages, roomNextSeq,
                    hubVars, wsTickets, dbVars, storeVars, granted, extVars>>

\* POST /dms/{user_id}/messages, from the body to the response
PostDmFinish(h, body) ==
  /\ reqs[h].pc = "post_dm"
  /\ LET r == reqs[h]
     IN IF ~HasText(body)
          THEN /\ last' = Response("post_dm", 400)
               /\ sent' = <<>>
               /\ UNCHANGED <<nextId, streamVars>>
          ELSE LET seq == AllocSeq(dmNextSeq[r.key])
                   msg == Message(nextId + 1, NoRoom, r.peer, r.caller, seq, nowTs,
                                  [text |-> body.text])
               IN /\ nextId < MaxMsgs
                  /\ nextId' = nextId + 1
                  /\ dmNextSeq' = [dmNextSeq EXCEPT ![r.key] = NextCounter(seq)]
                  /\ dmPairs' = [dmPairs EXCEPT ![r.key] = Append(@, msg)]
                  /\ sent' = broadcastDmMessage(r.caller, r.peer, msg)
                  /\ last' = Response("post_dm", 201)
                  /\ UNCHANGED <<roomMessages, roomNextSeq>>
  /\ reqs' = [reqs EXCEPT ![h] = Idle]
  /\ received' = received \o Tagged("bun", sent')
  /\ UNCHANGED <<now, nextTicket, users, roomMembers, hubVars, wsTickets,
                 dbVars, storeVars, granted, reacted, rooms, roomByName, countsHeap,
                 roomCursors, dmCursors, storeCursors, acked, faultVars, hbVars, recVars, closeVars>>

\* ------------------------------------------------- acknowledgements
\* the acks answered 204 so far on the stream of user and room, in order
Acked(stream) == IF stream \in DOMAIN acked THEN acked[stream] ELSE <<>>

\* the number of acks answered 204 so far, over streams
RECURSIVE AckCount(_)
AckCount(streams) ==
  IF streams = {} THEN 0
  ELSE LET x == CHOOSE y \in streams : TRUE
       IN Len(acked[x]) + AckCount(streams \ {x})

AcksLeft == AckCount(DOMAIN acked) < MaxAcks

\* ------------------------------------------------------- index.ts: cursors
\* Map.get(k)?.get(user) || 0
CursorAt(cursors, k, user_id) ==
  IF k \in DOMAIN cursors /\ user_id \in DOMAIN cursors[k] THEN cursors[k][user_id] ELSE 0

\* map.set(u.user_id, body.seq), on the map of stream k, made when missing; a
\* body without seq stores undefined, which every read turns into 0
CursorSet(cursors, k, user_id, body) ==
  LET map == IF k \in DOMAIN cursors THEN cursors[k] ELSE <<>>
  IN Put(cursors, k, Put(map, user_id, IF "seq" \in DOMAIN body THEN body.seq ELSE 0))

\* the ack recorded for the stream, when the body carries a seq
AckedWith(stream, body) ==
  IF "seq" \in DOMAIN body THEN Put(acked, stream, Append(Acked(stream), body.seq))
  ELSE acked

\* POST /rooms/{id}/ack, up to `await readJson(req)`
RoomAckBegin(h, caller, room_id) ==
  /\ Free(reqs, h)
  /\ IF ~Authed(caller)
       THEN last' = Response("ack_room", 401) /\ UNCHANGED reqs
       ELSE /\ reqs' = [reqs EXCEPT ![h] = [pc |-> "ack_room", caller |-> caller,
                                              room |-> room_id]]
            /\ last' = NoLast
  /\ sent' = <<>>
  /\ UNCHANGED <<now, nextId, nextTicket, users, roomMembers, streamVars, hubVars,
                 wsTickets, dbVars, storeVars, granted, extVars>>

\* POST /rooms/{id}/ack, from the body to the response
RoomAckFinish(h, body) ==
  /\ reqs[h].pc = "ack_room"
  /\ LET r == reqs[h]
     IN IF ~IsJson(body)
          THEN /\ last' = Response("ack_room", 400)
               /\ UNCHANGED <<roomCursors, acked>>
          ELSE /\ AcksLeft
               /\ roomCursors' = CursorSet(roomCursors, r.room, r.caller, body)
               /\ acked' = AckedWith(<<"room", r.caller, r.room>>, body)
               /\ last' = Response("ack_room", 204)
  /\ reqs' = [reqs EXCEPT ![h] = Idle]
  /\ sent' = <<>>
  /\ UNCHANGED <<now, nextId, nextTicket, users, roomMembers, streamVars, hubVars,
                 wsTickets, dbVars, storeVars, granted, reacted, rooms, roomByName,
                 countsHeap, dmCursors, storeCursors, received, faultVars, hbVars, recVars, closeVars>>

\* GET /rooms/{id}/cursor
GetRoomCursor(caller, room_id) ==
  /\ IF ~Authed(caller)
       THEN last' = Response("cursor_room", 401)
       ELSE last' = [op |-> "cursor_room", status |-> 200,
                     stream |-> <<"room", caller, room_id>>,
                     seq |-> CursorAt(roomCursors, room_id, caller)]
  /\ sent' = <<>>
  /\ UNCHANGED <<now, nextId, nextTicket, bunVars, dbVars, storeVars, granted, extVars>>

\* POST /dms/{user_id}/ack, up to `await readJson(req)`
DmAckBegin(h, caller, peer) ==
  LET key == pairKey(caller, peer)
  IN /\ Free(reqs, h)
     /\ IF ~Authed(caller)
          THEN last' = Response("ack_dm", 401) /\ UNCHANGED <<reqs, dmPairs, dmNextSeq>>
          ELSE /\ dmPairs' = EnsuredPairs(key)
               /\ dmNextSeq' = EnsuredNextSeq(key)
               /\ reqs' = [reqs EXCEPT ![h] = [pc |-> "ack_dm", caller |-> caller,
                                                 peer |-> peer, key |-> key]]
               /\ last' = NoLast
     /\ sent' = <<>>
     /\ UNCHANGED <<now, nextId, nextTicket, users, roomMembers, roomMessages, roomNextSeq,
                    hubVars, wsTickets, dbVars, storeVars, granted, extVars>>

\* POST /dms/{user_id}/ack, from the body to the response
DmAckFinish(h, body) ==
  /\ reqs[h].pc = "ack_dm"
  /\ LET r == reqs[h]
     IN IF ~IsJson(body)
          THEN /\ last' = Response("ack_dm", 400)
               /\ UNCHANGED <<dmCursors, acked>>
          ELSE /\ AcksLeft
               /\ dmCursors' = CursorSet(dmCursors, r.key, r.caller, body)
               /\ acked' = AckedWith(<<"dm", r.caller, r.peer>>, body)
               /\ last' = Response("ack_dm", 204)
  /\ reqs' = [reqs EXCEPT ![h] = Idle]
  /\ sent' = <<>>
  /\ UNCHANGED <<now, nextId, nextTicket, users, roomMembers, streamVars, hubVars,
                 wsTickets, dbVars, storeVars, granted, reacted, rooms, roomByName,
                 countsHeap, roomCursors, storeCursors, received, faultVars, hbVars, recVars, closeVars>>

\* GET /dms/{user_id}/cursor
GetDmCursor(caller, peer) ==
  /\ IF ~Authed(caller)
       THEN last' = Response("cursor_dm", 401)
       ELSE last' = [op |-> "cursor_dm", status |-> 200,
                     stream |-> <<"dm", caller, peer>>,
                     seq |-> CursorAt(dmCursors, pairKey(caller, peer), caller)]
  /\ sent' = <<>>
  /\ UNCHANGED <<now, nextId, nextTicket, bunVars, dbVars, storeVars, granted, extVars>>

\* ------------------------------------------------------ index.ts: realtime
\* a ticket validation of the server returned a user at the present time
Grant(server, t) ==
  Put(granted, <<server, t>>,
      Append(IF <<server, t>> \in DOMAIN granted THEN granted[<<server, t>>] ELSE <<>>, now))

\* POST /rtm/ticket
RtmTicket(caller) ==
  /\ nextTicket < MaxTickets
  /\ IF ~Authed(caller)
       THEN last' = Response("rtm_ticket", 401) /\ UNCHANGED <<wsTickets, nextTicket>>
       ELSE /\ nextTicket' = nextTicket + 1
            /\ wsTickets' = Put(wsTickets, nextTicket + 1,
                                [user_id |-> caller, expires_at |-> now + TtlMs, used |-> FALSE])
            /\ last' = Response("rtm_ticket", 200)
  /\ sent' = <<>>
  /\ UNCHANGED <<now, nextId, users, roomMembers, streamVars, hubVars, reqs,
                 dbVars, storeVars, granted, extVars>>

\* rec && !rec.used && rec.expires_at > Date.now()
TicketOk(t) ==
  /\ t \in DOMAIN wsTickets
  /\ ~wsTickets[t].used
  /\ wsTickets[t].expires_at > now

\* the tickets among the entries of Sec-WebSocket-Protocol
TicketsIn(parts) == {parts[i].id : i \in {j \in 1..Len(parts) : parts[j].kind = "ticket"}}

\* the Sec-WebSocket-Protocol loop: the first entry that authenticates
RECURSIVE ProtoAuth(_)
ProtoAuth(parts) ==
  IF parts = <<>> THEN [user |-> NoUser, ticket |-> NoTicket]
  ELSE LET p == Head(parts)
       IN IF p.kind = "ticket" /\ TicketOk(p.id)
            THEN [user |-> wsTickets[p.id].user_id, ticket |-> p.id]
          ELSE IF p.kind = "bearer" /\ Authed(p.id)
            THEN [user |-> p.id, ticket |-> NoTicket]
          ELSE ProtoAuth(Tail(parts))

\* GET /rtm: who the request authenticates as, and the ticket it consumes
RtmAuth(hdr, qpTicket, qpTok, parts) ==
  IF Authed(hdr) THEN [user |-> hdr, ticket |-> NoTicket]
  ELSE IF qpTicket # NoTicket /\ TicketOk(qpTicket)
    THEN [user |-> wsTickets[qpTicket].user_id, ticket |-> qpTicket]
  ELSE IF Authed(qpTok) THEN [user |-> qpTok, ticket |-> NoTicket]
  ELSE ProtoAuth(parts)

\* a ticket left unmarked: it could be presented again
NotConsumed(t) == wsTickets

\* rec.used = true
Consumed(t) == [wsTickets EXCEPT ![t].used = TRUE]

\* GET /rtm; upgraded is what server.upgrade returns
Rtm(hdr, qpTicket, qpTok, parts, upgraded, origin) ==
  LET a == RtmAuth(hdr, qpTicket, qpTok, parts)
      s == Cardinality(DOMAIN sockets) + 1
  IN /\ upgraded => s <= MaxSessions
     /\ IF a.ticket # NoTicket
          THEN wsTickets' = Consumed(a.ticket) /\ granted' = Grant("bun", a.ticket)
          ELSE UNCHANGED <<wsTickets, granted>>
     /\ IF a.user = NoUser
          THEN /\ last' = RtmResponse("rtm", 401, {qpTicket} \cup TicketsIn(parts), a.ticket, origin)
               /\ sent' = <<>>
               /\ UNCHANGED <<hubVars, timers, unanswered, closed>>
          ELSE IF ~upgraded
          THEN /\ last' = RtmResponse("rtm", 500, {qpTicket} \cup TicketsIn(parts), a.ticket, origin)
               /\ sent' = <<>>
               /\ UNCHANGED <<hubVars, timers, unanswered, closed>>
          ELSE /\ last' = RtmResponse("rtm", 101, {qpTicket} \cup TicketsIn(parts), a.ticket, origin)
               /\ attachSocket(s, a.user)
     /\ UNCHANGED <<now, nextId, nextTicket, users, roomMembers, streamVars, reqs,
                    dbVars, storeVars, reacted, rooms, roomByName, countsHeap, roomCursors,
                    dmCursors, storeCursors, histVars, faultVars, storeTimers,
                    storeUnanswered, recVars, storeClosed>>

\* ------------------------------------------- server-bun: inmemory.ts, index.ts
\* the constructor's user "alice" and the message it posts to "general"
Alice == 1
BootMsg == MaxMsgs + 1

\* DB.postMessageToRoom: the message built
DbMessage(id, author, seq, ts, text) ==
  [message_id |-> id, author |-> author, seq |-> seq, ts |-> ts, text |-> text,
   reactions |-> <<>>, tombstone |-> FALSE, edited_at |-> NoTs]

\* msgById.get(message_id): the index of the message, 0 when there is none
DbFind(mid) ==
  IF \E i \in 1..Len(dbMessages) : dbMessages[i].message_id = mid
    THEN CHOOSE i \in 1..Len(dbMessages) : dbMessages[i].message_id = mid
    ELSE 0

\* DB.editMessage: the assignments to m
DbEdited(m, patch, ts) ==
  [m EXCEPT !.text = IF "text" \in DOMAIN patch THEN patch.text ELSE @,
            !.edited_at = ts]

\* PATCH /messages/{id} of handle, for a session of username; a body that is
\* not JSON is read as {}
DbPatch(username, mid, body) ==
  LET i == DbFind(mid)
  IN /\ IF i = 0
          THEN last' = Response("db_patch", 404) /\ UNCHANGED dbMessages
          ELSE IF dbMessages[i].author # username
          THEN last' = Response("db_patch", 403) /\ UNCHANGED dbMessages
          ELSE /\ dbMessages' = [dbMessages EXCEPT ![i] = DbEdited(@, body, nowTs)]
               /\ last' = Response("db_patch", 200)
     /\ sent' = <<>>
     /\ UNCHANGED <<now, nextId, nextTicket, bunVars, dbNextSeq, dbTickets, storeVars, granted, extVars>>

\* DELETE /messages/{id} of handle, for a session of username: DB.deleteMessage
DbDelete(username, mid) ==
  LET i == DbFind(mid)
  IN /\ IF i = 0
          THEN last' = Response("db_delete", 404) /\ UNCHANGED dbMessages
          ELSE IF dbMessages[i].author # username
          THEN last' = Response("db_delete", 403) /\ UNCHANGED dbMessages
          ELSE /\ dbMessages' = [dbMessages EXCEPT ![i].tombstone = TRUE, ![i].ts = nowTs]
               /\ last' = Response("db_delete", 200)
     /\ sent' = <<>>
     /\ UNCHANGED <<now, nextId, nextTicket, bunVars, dbNextSeq, dbTickets, storeVars, granted, extVars>>

\* POST /rtm/ticket of handle, for a session of username: DB.mintTicket
DbRtmTicket(username) ==
  /\ nextTicket < MaxTickets
  /\ nextTicket' = nextTicket + 1
  /\ dbTickets' = Put(dbTickets, nextTicket + 1,
                      [username |-> username, expires_at |-> now + TtlMs, used |-> FALSE])
  /\ last' = Response("db_rtm_ticket", 200)
  /\ sent' = <<>>
  /\ UNCHANGED <<now, nextId, bunVars, dbMessages, dbNextSeq, storeVars, granted, extVars>>

\* ws.ts extractTicket: ticketFromSub || url.searchParams.get("ticket")
extractTicket(subTicket, qpTicket) == IF subTicket # NoTicket THEN subTicket ELSE qpTicket

\* DB.useTicket returns a username
useTicketOk(t) ==
  /\ t \in DOMAIN dbTickets
  /\ ~(dbTickets[t].used \/ now > dbTickets[t].expires_at)

\* the /rtm branch of handle; upgraded is what server.upgrade returns; the open
\* handler sends the ready frame
DbRtm(subTicket, qpTicket, upgraded, origin) ==
  LET ticket == extractTicket(subTicket, qpTicket)
  IN /\ IF ticket # NoTicket /\ useTicketOk(ticket)
          THEN /\ dbTickets' = [dbTickets EXCEPT ![ticket].used = TRUE]
               /\ granted' = Grant("db", ticket)
               /\ last' = RtmResponse("db_rtm", IF upgraded THEN 101 ELSE 500,
                                    {qpTicket, subTicket}, ticket, origin)
               /\ sent' = IF upgraded
                            THEN <<[to |-> dbTickets[ticket].username, type |-> "ready"]>>
                            ELSE <<>>
          ELSE /\ ~upgraded
               /\ last' = RtmResponse("db_rtm", 403, {qpTicket, subTicket}, NoTicket, origin)
               /\ sent' = <<>>
               /\ UNCHANGED <<dbTickets, granted>>
     /\ UNCHANGED <<now, nextId, nextTicket, bunVars, dbMessages, dbNextSeq, storeVars, extVars>>

\* ------------------------------------- server-bun: createApi, InMemoryStore
\* the constructor's user "system" and its room "general"
General == "general"
SystemUser == MaxUsers + 1

\* InMemoryStore.createRoom: the room built
StoreRoom(owner_id, name) ==
  [name |-> name, owner_id |-> owner_id, counts |-> 1,
   members |-> [u \in {owner_id} |-> "owner"]]

\* InMemoryStore.joinRoom: the room it leaves
joinRoom(user_id, room) ==
  IF user_id \in DOMAIN room.members THEN room
  ELSE [room EXCEPT !.members = Put(@, user_id, "member"), !.counts = @ + 1]

\* InMemoryStore.leaveRoom: the room it leaves
leaveRoom(user_id, room) ==
  IF user_id \in DOMAIN room.members
    THEN [room EXCEPT !.members = Remove(@, user_id), !.counts = Max(0, @ - 1)]
    ELSE room

\* the sockets of the connected users that are members of "general"
SocketsOf(u) == [k \in 1..storeSockets[u] |-> <<u, k>>]
MemberSockets ==
  Concat([u \in DOMAIN storeSockets |-> SocketsOf(u)],
         SetToSeq({u \in DOMAIN storeSockets : u \in DOMAIN storeRooms[General].members}))

\* createWsApi broadcastMessageCreate
\* send(s, payload) is ws.send with no handler around it: the first socket whose
\* send throws ends the loops of broadcastMessageCreate
Throws(targets) == \E i \in 1..Len(targets) : targets[i] \in storeBroken
UntilThrow(targets) ==
  IF Throws(targets)
    THEN SubSeq(targets, 1,
                (CHOOSE i \in 1..Len(targets) :
                    /\ targets[i] \in storeBroken
                    /\ \A j \in 1..(i - 1) : targets[j] \notin storeBroken) - 1)
    ELSE targets

broadcastMessageCreate(message) ==
  Frames(UntilThrow(MemberSockets), [type |-> "event.message.create", message |-> message])

\* messages.post, up to `await parseJsonBody(req)`
ApiPostBegin(h, userId, room_name) ==
  /\ Free(apiReqs, h)
  /\ IF room_name # General
       THEN /\ last' = Response("api_post", 404)
            /\ UNCHANGED <<storeRooms, apiReqs>>
       ELSE /\ storeRooms' = [storeRooms EXCEPT ![General] = joinRoom(userId, @)]
            /\ apiReqs' = [apiReqs EXCEPT ![h] = [pc |-> "post", userId |-> userId]]
            /\ last' = NoLast
  /\ sent' = <<>>
  /\ UNCHANGED <<now, nextId, nextTicket, bunVars, dbVars, storeMessages, storeSeq,
                 storeTickets, storeSockets, granted, extVars>>

\* a post that takes the stored seq again
KeptSeq(counter) == counter

\* InMemoryStore.postMessage: (this.seq.get(room_id) ?? 0) + 1
StoreSeq(counter) == counter + 1

\* messages.post, from the body to the response
ApiPostFinish(h, body) ==
  /\ apiReqs[h].pc = "post"
  /\ IF ~HasText(body)
       THEN /\ last' = Response("api_post", 400)
            /\ sent' = <<>>
            /\ UNCHANGED <<nextId, storeMessages, storeSeq>>
       ELSE LET seq == StoreSeq(storeSeq)
                msg == Message(nextId + 1, General, NoUser, apiReqs[h].userId, seq, nowIso, body)
            IN /\ nextId < MaxMsgs
               /\ nextId' = nextId + 1
               /\ storeSeq' = seq
               /\ storeMessages' = Append(storeMessages, msg)
               /\ sent' = broadcastMessageCreate(msg)
               /\ last' = Response("api_post", IF Throws(MemberSockets) THEN 500 ELSE 201)
  /\ apiReqs' = [apiReqs EXCEPT ![h] = Idle]
  /\ received' = received \o Tagged("api", sent')
  /\ UNCHANGED <<now, nextTicket, bunVars, dbVars, storeRooms, storeTickets, storeSockets,
                 granted, reacted, rooms, roomByName, countsHeap,
                 roomCursors, dmCursors, storeCursors, acked, faultVars, hbVars, recVars, closeVars>>

\* rooms.create, from the first line to the response: the body is awaited
\* before any state is read, and InMemoryStore.createRoom runs without suspending
ApiCreateRoom(userId, body) ==
  /\ Cardinality(DOMAIN storeRooms) < MaxStoreRooms
  /\ IF ~ValidCreate(body)
       THEN last' = Response("api_create_room", 400) /\ UNCHANGED storeRooms
       ELSE IF toLowerCase(body.name) \in DOMAIN storeRooms
       THEN last' = Response("api_create_room", 409) /\ UNCHANGED storeRooms
       ELSE /\ storeRooms' = Put(storeRooms, toLowerCase(body.name),
                                 StoreRoom(userId, body.name))
            /\ last' = Response("api_create_room", 201)
  /\ sent' = <<>>
  /\ UNCHANGED <<now, nextId, nextTicket, bunVars, dbVars, storeMessages, storeSeq,
                 storeTickets, storeSockets, apiReqs, granted, extVars>>

\* rooms.patch, up to `await parseJsonBody(req)`; room is the object found, which
\* stays in store.rooms under the key it was created with
ApiPatchRoomBegin(h, userId, room_name) ==
  /\ Free(apiReqs, h)
  /\ IF toLowerCase(room_name) \notin DOMAIN storeRooms
       THEN last' = Response("api_patch_room", 404) /\ UNCHANGED apiReqs
       ELSE IF storeRooms[toLowerCase(room_name)].owner_id # userId
       THEN last' = Response("api_patch_room", 403) /\ UNCHANGED apiReqs
       ELSE /\ apiReqs' = [apiReqs EXCEPT ![h] = [pc |-> "patch_room", userId |-> userId,
                                                    key |-> toLowerCase(room_name)]]
            /\ last' = NoLast
  /\ sent' = <<>>
  /\ UNCHANGED <<now, nextId, nextTicket, bunVars, dbVars, storeRooms, storeMessages, storeSeq,
                 storeTickets, storeSockets, granted, extVars>>

\* !patch || Object.keys(patch).length === 0
EmptyPatch(patch) == ~IsJson(patch) \/ DOMAIN patch = {}

\* rooms.patch, from the body to the response
ApiPatchRoomFinish(h, patch) ==
  /\ apiReqs[h].pc = "patch_room"
  /\ LET room == storeRooms[apiReqs[h].key]
     IN IF EmptyPatch(patch)
          THEN last' = Response("api_patch_room", 400) /\ UNCHANGED storeRooms
          ELSE IF /\ "name" \in DOMAIN patch /\ patch.name # ""
                  /\ toLowerCase(patch.name) # toLowerCase(room.name)
                  /\ toLowerCase(patch.name) \in DOMAIN storeRooms
          THEN last' = Response("api_patch_room", 409) /\ UNCHANGED storeRooms
          ELSE /\ storeRooms' =
                    [storeRooms EXCEPT ![apiReqs[h].key].name =
                       IF "name" \in DOMAIN patch /\ patch.name # "" THEN patch.name ELSE @]
               /\ last' = Response("api_patch_room", 200)
  /\ apiReqs' = [apiReqs EXCEPT ![h] = Idle]
  /\ sent' = <<>>
  /\ UNCHANGED <<now, nextId, nextTicket, bunVars, dbVars, storeMessages, storeSeq,
                 storeTickets, storeSockets, granted, extVars>>

\* InMemoryStore.leaveRoom, called on the room stored under key
StoreLeave(user_id, key) ==
  /\ key \in DOMAIN storeRooms
  /\ storeRooms' = [storeRooms EXCEPT ![key] = leaveRoom(user_id, @)]
  /\ last' = NoLast
  /\ sent' = <<>>
  /\ UNCHANGED <<now, nextId, nextTicket, bunVars, dbVars, storeMessages, storeSeq,
                 storeTickets, storeSockets, apiReqs, granted, extVars>>

\* ------------------------------------------------- cursors of InMemoryStore
\* a cursor that takes the acknowledged seq whatever it was
Overwritten(prev, seq) == seq

\* InMemoryStore.setCursor: Math.max(prev, seq)
Advanced(prev, seq) == Max(prev, seq)

\* InMemoryStore.getCursor, on the cursors given
CursorOf(cursors, user_id, room_id) ==
  IF user_id \in DOMAIN cursors /\ room_id \in DOMAIN cursors[user_id]
    THEN cursors[user_id][room_id] ELSE 0

\* InMemoryStore.getCursor
getCursor(user_id, room_id) == CursorOf(storeCursors, user_id, room_id)

\* InMemoryStore.setCursor: the cursors it leaves
setCursor(user_id, room_id, seq) ==
  LET m == IF user_id \in DOMAIN storeCursors THEN storeCursors[user_id] ELSE <<>>
      prev == IF room_id \in DOMAIN m THEN m[room_id] ELSE 0
  IN Put(storeCursors, user_id, Put(m, room_id, Advanced(prev, seq)))

\* messages.ack, up to `await parseJsonBody(req)`
ApiAckBegin(h, userId, room_name) ==
  /\ Free(apiReqs, h)
  /\ IF toLowerCase(room_name) \notin DOMAIN storeRooms
       THEN last' = Response("api_ack", 404) /\ UNCHANGED apiReqs
       ELSE /\ apiReqs' = [apiReqs EXCEPT ![h] = [pc |-> "ack", userId |-> userId,
                                                    key |-> toLowerCase(room_name)]]
            /\ last' = NoLast
  /\ sent' = <<>>
  /\ UNCHANGED <<now, nextId, nextTicket, bunVars, dbVars, storeRooms, storeMessages,
                 storeSeq, storeTickets, storeSockets, granted, extVars>>

\* messages.ack, from the body to the response
ApiAckFinish(h, body) ==
  /\ apiReqs[h].pc = "ack"
  /\ LET r == apiReqs[h]
         stream == <<"store", r.userId, r.key>>
     IN IF ~(IsJson(body) /\ "seq" \in DOMAIN body)
          THEN /\ last' = Response("api_ack", 400)
               /\ UNCHANGED <<storeCursors, acked>>
          ELSE /\ AcksLeft
               /\ storeCursors' = setCursor(r.userId, r.key, body.seq)
               /\ acked' = Put(acked, stream, Append(Acked(stream), body.seq))
               /\ last' = Response("api_ack", 204)
  /\ apiReqs' = [apiReqs EXCEPT ![h] = Idle]
  /\ sent' = <<>>
  /\ UNCHANGED <<now, nextId, nextTicket, bunVars, dbVars, storeRooms, storeMessages,
                 storeSeq, storeTickets, storeSockets, granted, reacted, rooms,
                 roomByName, countsHeap, roomCursors, dmCursors, received, faultVars, hbVars, recVars, closeVars>>

\* messages.cursor
ApiCursor(userId, room_name) ==
  /\ IF toLowerCase(room_name) \notin DOMAIN storeRooms
       THEN last' = Response("api_cursor", 404)
       ELSE last' = [op |-> "api_cursor", status |-> 200, userId |-> userId,
                     key |-> toLowerCase(room_name),
                     seq |-> getCursor(userId, toLowerCase(room_name))]
  /\ sent' = <<>>
  /\ UNCHANGED <<now, nextId, nextTicket, bunVars, dbVars, storeVars, granted, extVars>>

\* --------------------------------------------------- reads of InMemoryStore
\* numOrNull(v): v ? parseInt(v, 10) : null
NoNumber == -2
numOrNull(raw) == IF raw = Absent THEN NoNumber ELSE raw

\* clampInt(v, min, max, dflt)
clampInt(raw, min, max, dflt) ==
  IF raw = Absent THEN dflt ELSE Max(min, Min(max, raw))

\* Array.prototype.findIndex for m => m.seq >= seq: the 0-based index of the
\* first such message, -1 when there is none
findIndex(arr, seq) ==
  LET hits == {i \in 1..Len(arr) : arr[i].seq >= seq}
  IN IF hits = {} THEN -1 ELSE (CHOOSE i \in hits : \A j \in hits : i <= j) - 1

\* the relative index of Array.prototype.slice: a negative index counts from
\* the end, and the result is kept within 0..len
Relative(index, len) == IF index < 0 THEN Max(len + index, 0) ELSE Min(index, len)

\* Array.prototype.slice(start, end), both 0-based, end excluded
slice(arr, start, end) ==
  SubSeq(arr, Relative(start, Len(arr)) + 1, Relative(end, Len(arr)))

\* from_seq ? ... : 0, and before_seq ? ... : ...
Truthy(n) == n # NoNumber /\ n # 0

\* InMemoryStore.listMessages, on the log and the last assigned seq of a room
listMessages(arr, counter, from_seq, limit) ==
  LET start == IF Truthy(from_seq) THEN findIndex(arr, from_seq) ELSE 0
      got == slice(arr, start, start + limit)
  IN [messages |-> got,
      next_seq |-> IF Len(got) > 0 THEN got[Len(got)].seq + 1 ELSE counter]

\* InMemoryStore.backfillMessages
backfillMessages(arr, before_seq, limit) ==
  LET idx == IF Truthy(before_seq) THEN findIndex(arr, before_seq) ELSE Len(arr)
      end == IF idx <= 0 THEN 0 ELSE idx - 1
      start == Max(0, end - limit + 1)
      got == slice(arr, start, end + 1)
  IN [messages |-> got,
      prev_seq |-> IF Len(got) > 0 THEN got[1].seq - 1 ELSE 0]

\* the log and the last assigned seq of the room stored under key; only
\* "general" is posted to
StoreLog(key) == IF key = General THEN storeMessages ELSE <<>>
StoreLastSeq(key) == IF key = General THEN storeSeq ELSE 0

\* messages.forward
ApiForward(userId, room_name, rawFrom, rawLimit) ==
  LET key == toLowerCase(room_name)
  IN /\ IF key \notin DOMAIN storeRooms
          THEN last' = Response("api_forward", 404)
          ELSE IF userId \notin DOMAIN storeRooms[key].members
          THEN last' = Response("api_forward", 403)
          ELSE last' = Spread(Spread(Response("api_forward", 200),
                                     listMessages(StoreLog(key), StoreLastSeq(key),
                                                  numOrNull(rawFrom),
                                                  clampInt(rawLimit, 1, 200, 50))),
                              Request(<<"store", key>>, rawFrom, rawLimit))
     /\ sent' = <<>>
     /\ UNCHANGED <<now, nextId, nextTicket, bunVars, dbVars, storeVars, granted, extVars>>

\* messages.backfill
ApiBackfill(userId, room_name, rawBefore, rawLimit) ==
  LET key == toLowerCase(room_name)
  IN /\ IF key \notin DOMAIN storeRooms
          THEN last' = Response("api_backfill", 404)
          ELSE IF userId \notin DOMAIN storeRooms[key].members
          THEN last' = Response("api_backfill", 403)
          ELSE last' = Spread(Spread(Response("api_backfill", 200),
                                     backfillMessages(StoreLog(key), numOrNull(rawBefore),
                                                      clampInt(rawLimit, 1, 200, 50))),
                              [stream |-> <<"store", key>>, before_seq |-> rawBefore,
                               limit |-> rawLimit])
     /\ sent' = <<>>
     /\ UNCHANGED <<now, nextId, nextTicket, bunVars, dbVars, storeVars, granted, extVars>>

\* rtm.ticket: issueTicket
issueTicket(user_id) ==
  /\ nextTicket < MaxTickets
  /\ nextTicket' = nextTicket + 1
  /\ storeTickets' = Put(storeTickets, nextTicket + 1,
                         [user_id |-> user_id, expires_at |-> now + TtlMs])
  /\ last' = Response("api_rtm_ticket", 200)
  /\ sent' = <<>>
  /\ UNCHANGED <<now, nextId, bunVars, dbVars, storeRooms, storeMessages, storeSeq,
                 storeSockets, apiReqs, granted, extVars>>

AllowList == {"http://localhost:3000", "http://localhost:5173", "http://localhost:1234"}
isOriginAllowed(origin) == origin = "" \/ origin \in AllowList

\* upgradeToRtm finds a ticket it accepts
EntryOk(ticket, origin) ==
  /\ ticket # NoTicket
  /\ isOriginAllowed(origin)
  /\ ticket \in DOMAIN storeTickets
  /\ ~(storeTickets[ticket].expires_at < now)

OpenSockets == Cardinality(UNION {{<<u, k>> : k \in 1..storeSockets[u]} : u \in DOMAIN storeSockets})

\* GET /rtm of the router: upgradeToRtm, and onOpen when server.upgrade returns ok
upgradeToRtm(qpTicket, subTicket, origin, ok) ==
  LET ticket == IF qpTicket # NoTicket THEN qpTicket ELSE subTicket
  IN /\ IF EntryOk(ticket, origin)
          THEN LET userId == storeTickets[ticket].user_id
               IN /\ storeTickets' = [t \in DOMAIN storeTickets \ {ticket} |-> storeTickets[t]]
                  /\ granted' = Grant("api", ticket)
                  /\ ok => OpenSockets < MaxSessions
                  /\ IF ok
                       THEN /\ storeSockets' =
                                 Put(storeSockets, userId,
                                     IF userId \in DOMAIN storeSockets
                                       THEN storeSockets[userId] + 1 ELSE 1)
                            /\ storeRooms' = [storeRooms EXCEPT ![General] = joinRoom(userId, @)]
                            /\ storeTimers' = storeTimers \cup {<<userId, storeSockets'[userId]>>}
                            /\ storeUnanswered' =
                                 Put(storeUnanswered, <<userId, storeSockets'[userId]>>, 0)
                            /\ storeClosed' =
                                 storeClosed \ {<<userId, storeSockets'[userId]>>}
                            /\ sent' = <<[to |-> <<userId, storeSockets'[userId]>>,
                                          type |-> "ready"]>>
                            /\ last' = RtmResponse("api_rtm", 101, {qpTicket, subTicket}, ticket, origin)
                       ELSE /\ last' = RtmResponse("api_rtm", 400, {qpTicket, subTicket}, ticket, origin)
                            /\ sent' = <<>>
                            /\ UNCHANGED <<storeSockets, storeRooms, storeTimers,
                                           storeUnanswered, storeClosed>>
          ELSE /\ ~ok
               /\ last' = RtmResponse("api_rtm", 400, {qpTicket, subTicket}, NoTicket, origin)
               /\ sent' = <<>>
               /\ UNCHANGED <<storeTickets, storeSockets, storeRooms, granted, storeTimers,
                              storeUnanswered, storeClosed>>
     /\ UNCHANGED <<now, nextId, nextTicket, bunVars, dbVars, storeMessages, storeSeq, apiReqs,
                    reacted, rooms, roomByName, countsHeap, roomCursors, dmCursors,
                    storeCursors, histVars, faultVars, timers, unanswered, recVars, closed>>

\* ---------------------------------------------------------- send failures
\* the transport of socket s of hub.allSockets fails: from now on ws.send throws
SocketError(s) ==
  /\ s \in DOMAIN sockets \ broken
  /\ broken' = broken \cup {s}
  /\ last' = NoLast
  /\ sent' = <<>>
  /\ UNCHANGED <<now, nextId, nextTicket, bunVars, dbVars, storeVars, granted, reacted,
                 rooms, roomByName, countsHeap, roomCursors, dmCursors, storeCursors,
                 histVars, storeBroken, hbVars, recVars, closeVars>>

\* the same for socket k of user u in InMemoryStore.sockets
StoreSocketError(u, k) ==
  /\ u \in DOMAIN storeSockets /\ k \in 1..storeSockets[u]
  /\ <<u, k>> \notin storeBroken
  /\ storeBroken' = storeBroken \cup {<<u, k>>}
  /\ last' = NoLast
  /\ sent' = <<>>
  /\ UNCHANGED <<now, nextId, nextTicket, bunVars, dbVars, storeVars, granted, reacted,
                 rooms, roomByName, countsHeap, roomCursors, dmCursors, storeCursors,
                 histVars, broken, hbVars, recVars, closeVars>>

\* ------------------------------------------------------ index.ts: profile
\* authedUser: tokens.get(tok), then users.get(rec.user_id)
authedUser(caller) == IF caller \in users THEN profiles[caller] ELSE NoBody

\* PATCH /users/me, up to `await readJson(req)`
PatchMeBegin(h, caller) ==
  /\ Free(reqs, h)
  /\ IF ~Authed(caller)
       THEN last' = Response("patch_me", 401) /\ UNCHANGED reqs
       ELSE /\ reqs' = [reqs EXCEPT ![h] = [pc |-> "patch_me", caller |-> caller,
                                              u |-> authedUser(caller)]]
            /\ last' = NoLast
  /\ sent' = <<>>
  /\ UNCHANGED <<now, nextId, nextTicket, users, roomMembers, streamVars, hubVars, wsTickets,
                 dbVars, storeVars, granted, extVars>>

\* PATCH /users/me, from the body to the response:
\* nu = { ...u, ...body }; users.set(u.user_id, nu)
PatchMeFinish(h, body) ==
  /\ reqs[h].pc = "patch_me"
  /\ IF ~IsJson(body)
       THEN last' = Response("patch_me", 400) /\ UNCHANGED profiles
       ELSE /\ profiles' = Put(profiles, reqs[h].u.user_id, Spread(reqs[h].u, body))
            /\ last' = Response("patch_me", 200)
  /\ reqs' = [reqs EXCEPT ![h] = Idle]
  /\ sent' = <<>>
  /\ UNCHANGED <<now, nextId, nextTicket, users, roomMembers, streamVars, hubVars, wsTickets,
                 dbVars, storeVars, granted, reacted, rooms, roomByName, countsHeap,
                 roomCursors, dmCursors, storeCursors, histVars, faultVars, hbVars, pinned, closeVars>>

\* --------------------------------------------------------- index.ts: pins
\* !body?.message_id
HasMessageId(body) == IsJson(body) /\ "message_id" \in DOMAIN body /\ body.message_id # 0

\* POST /rooms/{id}/pins; the handler reads no Authorization header, and the
\* room object found before `await readJson(req)` is the stored one
PostPin(caller, room_id, body) ==
  /\ IF room_id \notin DOMAIN rooms
       THEN last' = Response("pin", 404) /\ UNCHANGED pinned
       ELSE IF ~HasMessageId(body)
       THEN last' = Response("pin", 400) /\ UNCHANGED pinned
       ELSE /\ pinned' = [pinned EXCEPT ![room_id] =
                             IF \E i \in 1..Len(@) : @[i] = body.message_id
                               THEN @ ELSE Append(@, body.message_id)]
            /\ last' = Response("pin", 204)
  /\ sent' = <<>>
  /\ UNCHANGED <<now, nextId, nextTicket, bunVars, dbVars, storeVars, granted, reacted, rooms,
                 roomByName, countsHeap, roomCursors, dmCursors, storeCursors, histVars,
                 faultVars, hbVars, profiles, closeVars>>

\* DELETE /rooms/{id}/pins?message_id=
DeletePin(caller, room_id, message_id) ==
  /\ IF room_id \notin DOMAIN rooms
       THEN last' = Response("unpin", 404) /\ UNCHANGED pinned
       ELSE /\ pinned' = [pinned EXCEPT ![room_id] =
                             SelectSeq(@, LAMBDA m : m # message_id)]
            /\ last' = Response("unpin", 204)
  /\ sent' = <<>>
  /\ UNCHANGED <<now, nextId, nextTicket, bunVars, dbVars, storeVars, granted, reacted, rooms,
                 roomByName, countsHeap, roomCursors, dmCursors, storeCursors, histVars,
                 faultVars, hbVars, profiles, closeVars>>

\* ------------------------------------------------------------- heartbeats
\* ws.ts attachSocket, the setInterval callback of socket s: a ping is sent, and
\* the interval is cleared when ws.send throws
Ping(s) ==
  /\ s \in timers
  /\ IF s \in broken
       THEN /\ timers' = timers \ {s}
            /\ sent' = <<>>
            /\ UNCHANGED unanswered
       ELSE /\ unanswered[s] < MaxPings
            /\ sent' = <<[to |-> s, type |-> "ping"]>>
            /\ unanswered' = [unanswered EXCEPT ![s] = @ + 1]
            /\ UNCHANGED timers
  /\ last' = NoLast
  /\ UNCHANGED <<now, nextId, nextTicket, bunVars, dbVars, storeVars, granted, reacted,
                 rooms, roomByName, countsHeap, roomCursors, dmCursors, storeCursors,
                 histVars, faultVars, storeTimers, storeUnanswered, recVars, closeVars>>

\* ws.onmessage, a pong frame: nothing is stored
Pong(s) ==
  /\ s \in DOMAIN sockets /\ s \notin closed
  /\ unanswered' = [unanswered EXCEPT ![s] = 0]
  /\ last' = NoLast
  /\ sent' = <<>>
  /\ UNCHANGED <<now, nextId, nextTicket, bunVars, dbVars, storeVars, granted, reacted,
                 rooms, roomByName, countsHeap, roomCursors, dmCursors, storeCursors,
                 histVars, faultVars, timers, storeTimers, storeUnanswered, recVars, closeVars>>

\* createWsApi onOpen, the setInterval callback of a socket:
\* try { send(ws, ping) } catch {}
StorePing(sock) ==
  /\ sock \in storeTimers
  /\ IF sock \in storeBroken
       THEN sent' = <<>> /\ UNCHANGED storeUnanswered
       ELSE /\ storeUnanswered[sock] < MaxPings
            /\ sent' = <<[to |-> sock, type |-> "ping"]>>
            /\ storeUnanswered' = [storeUnanswered EXCEPT ![sock] = @ + 1]
  /\ last' = NoLast
  /\ UNCHANGED <<now, nextId, nextTicket, bunVars, dbVars, storeVars, granted, reacted,
                 rooms, roomByName, countsHeap, roomCursors, dmCursors, storeCursors,
                 histVars, faultVars, timers, storeTimers, unanswered, recVars, closeVars>>

\* createWsApi onMessage, a pong frame: ignored
StorePong(sock) ==
  /\ sock[1] \in DOMAIN storeSockets /\ sock[2] \in 1..storeSockets[sock[1]]
  /\ sock \notin storeClosed
  /\ storeUnanswered' = [storeUnanswered EXCEPT ![sock] = 0]
  /\ last' = NoLast
  /\ sent' = <<>>
  /\ UNCHANGED <<now, nextId, nextTicket, bunVars, dbVars, storeVars, granted, reacted,
                 rooms, roomByName, countsHeap, roomCursors, dmCursors, storeCursors,
                 histVars, faultVars, timers, storeTimers, unanswered, recVars, closeVars>>

\* ------------------------------------------------------------ socket close
\* hub.byRoom / hub.byUserDM after set.delete(ws), an emptied set being dropped
Detached(index, s) ==
  [k \in {x \in DOMAIN index : index[x] \ {s} # {}} |-> index[k] \ {s}]

\* the close event of socket s. The handler registered with Bun.serve,
\* websocket.close, is empty; the detach is in the ws.onclose property set by
\* attachSocket, which nothing in the repository calls: whether it runs is the
\* runtime's choice (dispatched)
Close(s, dispatched) ==
  /\ s \in DOMAIN sockets /\ s \notin closed
  /\ dispatched => s = Cardinality(DOMAIN sockets)
  /\ closed' = closed \cup {s}
  /\ IF dispatched
       THEN /\ sockets' = Remove(sockets, s)
            /\ byRoom' = Detached(byRoom, s)
            /\ byUserDM' = Detached(byUserDM, s)
            /\ timers' = timers \ {s}
       ELSE UNCHANGED <<hubVars, timers>>
  /\ last' = NoLast
  /\ sent' = <<>>
  /\ UNCHANGED <<now, nextId, nextTicket, users, roomMembers, streamVars, wsTickets, reqs,
                 dbVars, storeVars, granted, reacted, rooms, roomByName, countsHeap,
                 roomCursors, dmCursors, storeCursors, histVars, faultVars, storeTimers,
                 unanswered, storeUnanswered, recVars, storeClosed>>

\* createWsApi onClose, for the socket a user opened last
StoreClose(sock) ==
  /\ sock[1] \in DOMAIN storeSockets /\ sock[2] = storeSockets[sock[1]] /\ sock[2] > 0
  /\ sock \notin storeClosed
  /\ storeClosed' = storeClosed \cup {sock}
  /\ storeSockets' = [storeSockets EXCEPT ![sock[1]] = @ - 1]
  /\ storeTimers' = storeTimers \ {sock}
  /\ last' = NoLast
  /\ sent' = <<>>
  /\ UNCHANGED <<now, nextId, nextTicket, bunVars, dbVars, storeRooms, storeMessages, storeSeq,
                 storeTickets, apiReqs, granted, reacted, rooms, roomByName, countsHeap,
                 roomCursors, dmCursors, storeCursors, histVars, faultVars, timers,
                 unanswered, storeUnanswered, recVars, closed>>

\* ------------------------------------------------------------ initial state
Init ==
  /\ now = 0
  /\ nextId = 0
  /\ nextTicket = 0
  /\ users = {}
  /\ roomMembers = <<>>
  /\ roomMessages = <<>>
  /\ roomNextSeq = <<>>
  /\ dmPairs = <<>>
  /\ dmNextSeq = <<>>
  /\ sockets = <<>>
  /\ byRoom = <<>>
  /\ byUserDM = <<>>
  /\ wsTickets = <<>>
  /\ reqs = [h \in Handlers |-> Idle]
  /\ dbMessages = <<DbMessage(BootMsg, Alice, 1, nowTs, "hello")>>
  /\ dbNextSeq = 2
  /\ dbTickets = <<>>
  /\ storeRooms = [k \in {General} |-> StoreRoom(SystemUser, General)]
  /\ storeMessages = <<>>
  /\ storeSeq = 0
  /\ storeTickets = <<>>
  /\ storeSockets = <<>>
  /\ apiReqs = [h \in Handlers |-> Idle]
  /\ granted = <<>>
  /\ last = NoLast
  /\ sent = <<>>
  /\ reacted = <<>>
  /\ rooms = <<>>
  /\ roomByName = <<>>
  /\ countsHeap = <<>>
  /\ roomCursors = <<>>
  /\ dmCursors = <<>>
  /\ storeCursors = <<>>
  /\ acked = <<>>
  /\ received = <<>>
  /\ broken = {}
  /\ storeBroken = {}
  /\ timers = {}
  /\ storeTimers = {}
  /\ unanswered = <<>>
  /\ storeUnanswered = <<>>
  /\ profiles = <<>>
  /\ pinned = <<>>
  /\ closed = {}
  /\ storeClosed = {}

\* ------------------------------------------------------------ request inputs
Callers == Users \cup {NoUser}
PostBodies == {NoBody, [text |-> "hi"]}
OverSeq == MaxMsgs + 1
PatchBodies == {NoBody, [text |-> "x"], [seq |-> OverSeq, tombstone |-> FALSE]}
EditBodies == {NoBody, [text |-> "x"]}
ReadFrom == {Absent, 2}
ReadLimit == {Absent, 1}
Origins == {"", "http://evil.example"}
TicketUsers == {Alice}
Presented == Tickets \cup {NoTicket}
SubProtocols == {<<>>} \cup {<<[kind |-> "ticket", id |-> t]>> : t \in Tickets}

\* bun-server-implementation: the room streams behind handleRequest, one request
\* in flight at a time, while the clock stands still
Next ==
  \/ AuthGuest
  \/ \E caller \in Callers : createRoom(caller)
  \/ \E caller \in Callers, room \in Rooms : PostRoomBegin(1, caller, room)
  \/ \E body \in PostBodies : PostRoomFinish(1, body)
  \/ \E caller \in Callers, mid \in MsgIds : PatchBegin(1, caller, mid)
  \/ \E body \in PatchBodies : PatchFinish(1, body)
  \/ \E caller \in Callers, mid \in MsgIds : DeleteMessage(caller, mid)
  \/ \E room \in Rooms, f \in ReadFrom, l \in ReadLimit : GetRoomMessages(room, f, l)
  \/ \E room \in Rooms, f \in ReadFrom, l \in ReadLimit : GetRoomBackfill(room, f, l)

Spec == Init /\ [][Next]_vars

\* bun-server-implementation: posts, edits and deletes as the clock advances
NextClock ==
  \/ AuthGuest
  \/ Tick(MaxTicks)
  \/ \E caller \in Users : createRoom(caller)
  \/ \E caller \in Users, room \in Rooms : PostRoomBegin(1, caller, room)
  \/ PostRoomFinish(1, [text |-> "hi"])
  \/ \E caller \in Users, mid \in MsgIds : PatchBegin(1, caller, mid)
  \/ \E body \in EditBodies : PatchFinish(1, body)
  \/ \E caller \in Users, mid \in MsgIds : DeleteMessage(caller, mid)

SpecClock == Init /\ [][NextClock]_vars

\* the first guest, who creates the room and posts to it
Owner == CHOOSE u \in Users : \A v \in Users : u <= v

\* the edits of both servers and the subscribers of bun-server-implementation
NextEdit ==
  \/ AuthGuest
  \/ createRoom(Owner)
  \/ \E caller \in Users, room \in Rooms : PostRoomBegin(1, caller, room)
  \/ PostRoomFinish(1, [text |-> "hi"])
  \/ \E caller \in Callers, mid \in MsgIds : PatchBegin(1, caller, mid)
  \/ \E body \in EditBodies : PatchFinish(1, body)
  \/ \E caller \in Users, mid \in MsgIds : DeleteMessage(caller, mid)
  \/ \E hdr \in Users : Rtm(hdr, NoTicket, NoUser, <<>>, TRUE, "")
  \/ \E s \in Sessions, subs \in SUBSET Rooms : Hello(s, subs, FALSE)
  \/ \E username \in Users, body \in EditBodies : DbPatch(username, BootMsg, body)

SpecEdit == Init /\ [][NextEdit]_vars

\* posts to one room of bun-server-implementation and to "general" of server-bun,
\* several of them suspended at their await at once
NextPosts ==
  \/ AuthGuest
  \/ \E caller \in Users : createRoom(caller)
  \/ \E h \in Handlers, caller \in Callers, room \in Rooms : PostRoomBegin(h, caller, room)
  \/ \E h \in Handlers, body \in PostBodies : PostRoomFinish(h, body)
  \/ \E h \in Handlers, userId \in Users, name \in {General, "nowhere"} :
        ApiPostBegin(h, userId, name)
  \/ \E h \in Handlers, body \in PostBodies : ApiPostFinish(h, body)

SpecPosts == Init /\ [][NextPosts]_vars

\* the tickets of the three servers and the upgrades that present them
NextTickets ==
  \/ AuthGuest
  \/ Tick(MaxTicketTicks)
  \/ \E caller \in TicketUsers \cup {NoUser} : RtmTicket(caller)
  \/ \E qp \in Presented, parts \in SubProtocols, upgraded \in BOOLEAN :
        Rtm(NoUser, qp, NoUser, parts, upgraded, "")
  \/ \E username \in TicketUsers : DbRtmTicket(username)
  \/ \E sub \in Presented, qp \in Presented, upgraded \in BOOLEAN : DbRtm(sub, qp, upgraded, "")
  \/ \E user_id \in TicketUsers : issueTicket(user_id)
  \/ \E qp \in Presented, sub \in Presented, ok \in BOOLEAN : upgradeToRtm(qp, sub, "", ok)

SpecTickets == Init /\ [][NextTickets]_vars

\* bun-server-implementation: reactions to the messages of a room, several
\* requests suspended at their await at once; no message is edited or deleted
Emojis == {"a", "b"}
ReactBodies == {NoBody} \cup {[emoji |-> e] : e \in Emojis}
NextReact ==
  \/ AuthGuest
  \/ createRoom(Owner)
  \/ \E room \in Rooms : PostRoomBegin(1, Owner, room)
  \/ PostRoomFinish(1, [text |-> "hi"])
  \/ \E h \in Handlers, caller \in Callers, mid \in 1..MaxReactMsgs,
        method \in {"POST", "DELETE"} :
        ReactBegin(h, caller, mid, method)
  \/ \E h \in Handlers, body \in ReactBodies : ReactFinish(h, body)

SpecReact == Init /\ [][NextReact]_vars

\* memberships of one room of bun-server-implementation, one PATCH in flight
OverCount == MaxUsers + 2
MemberPatchBodies == {NoBody, [topic |-> "t"], [counts |-> [members |-> OverCount]]}
InviteBodies == {NoBody} \cup {[user_id |-> u] : u \in Users}
NextMembers ==
  \/ AuthGuest
  \/ \E caller \in Users : createRoom(caller)
  \/ \E caller \in Callers, room_id \in Rooms : PatchRoomBegin(1, caller, room_id)
  \/ \E body \in MemberPatchBodies : PatchRoomFinish(1, body)
  \/ \E caller \in Callers, room_id \in DOMAIN rooms : JoinRoom(caller, room_id)
  \/ \E caller \in Callers, room_id \in DOMAIN rooms, body \in InviteBodies :
        InviteToRoom(caller, room_id, body)
  \/ \E caller \in Callers, room_id \in DOMAIN rooms : LeaveRoom(caller, room_id)

SpecMembers == Init /\ [][NextMembers]_vars

\* the names of the rooms of bun-server-implementation, several PATCH requests
\* suspended at their await at once
RoomNames == {"a", "A", "b"}
CreateBodies == {NoBody} \cup {[name |-> n, visibility |-> "public"] : n \in RoomNames}
RenameBodies == {NoBody, [topic |-> "t"]} \cup {[name |-> n] : n \in RoomNames}
NamedRooms == 1..MaxNamedRooms
NextNames ==
  \/ AuthGuest
  \/ \E caller \in Callers, body \in CreateBodies : PostRooms(caller, body, MaxNamedRooms)
  \/ \E h \in Handlers, caller \in Callers, room_id \in NamedRooms :
        PatchRoomBegin(h, caller, room_id)
  \/ \E h \in Handlers, body \in RenameBodies : PatchRoomFinish(h, body)

SpecNames == Init /\ [][NextNames]_vars

\* rooms and memberships of the second server-bun variant
NextApiRooms ==
  \/ \E userId \in Users, body \in CreateBodies : ApiCreateRoom(userId, body)
  \/ \E h \in Handlers, userId \in Users \cup {SystemUser},
        room_name \in RoomNames \cup {General} : ApiPatchRoomBegin(h, userId, room_name)
  \/ \E h \in Handlers, patch \in RenameBodies : ApiPatchRoomFinish(h, patch)
  \/ \E h \in Handlers, userId \in Users : ApiPostBegin(h, userId, General)
  \/ \E h \in Handlers : ApiPostFinish(h, NoBody)
  \/ \E user_id \in Users, key \in DOMAIN storeRooms : StoreLeave(user_id, key)

SpecApiRooms == Init /\ [][NextApiRooms]_vars

\* acks and cursor reads of the second server-bun variant, on two rooms
AckSeqs == 0..MaxAckSeq
AckBodies == {NoBody, [text |-> "hi"]} \cup {[seq |-> n] : n \in AckSeqs}
NextStoreAcks ==
  \/ ApiCreateRoom(Owner, [name |-> "a", visibility |-> "public"])
  \/ \E h \in Handlers, userId \in Users, room_name \in {General, "a"} :
        ApiAckBegin(h, userId, room_name)
  \/ \E h \in Handlers, body \in AckBodies : ApiAckFinish(h, body)
  \/ \E userId \in Users, room_name \in {General, "a"} : ApiCursor(userId, room_name)

SpecStoreAcks == Init /\ [][NextStoreAcks]_vars

\* acks and cursor reads of bun-server-implementation, on rooms and DMs
SeqBodies == {NoBody} \cup {[seq |-> n] : n \in AckSeqs}
NextAcks ==
  \/ AuthGuest
  \/ \E h \in Handlers, caller \in Callers, room_id \in Rooms : RoomAckBegin(h, caller, room_id)
  \/ \E h \in Handlers, body \in SeqBodies : RoomAckFinish(h, body)
  \/ \E caller \in Callers, room_id \in Rooms : GetRoomCursor(caller, room_id)
  \/ \E h \in Handlers, caller \in Callers, peer \in Users : DmAckBegin(h, caller, peer)
  \/ \E h \in Handlers, body \in SeqBodies : DmAckFinish(h, body)
  \/ \E caller \in Callers, peer \in Users : GetDmCursor(caller, peer)

SpecAcks == Init /\ [][NextAcks]_vars

\* posts and forward reads of bun-server-implementation, on a room and on DMs
RoundTripFrom == {Absent, 1}
RoundTripLimit == 0..MaxMsgs
NextRead ==
  \/ AuthGuest
  \/ createRoom(Owner)
  \/ \E h \in Handlers, caller \in Callers, room \in Rooms : PostRoomBegin(h, caller, room)
  \/ \E h \in Handlers, body \in PostBodies : PostRoomFinish(h, body)
  \/ \E room \in Rooms, rawFrom \in RoundTripFrom, rawLimit \in RoundTripLimit :
        GetRoomMessages(room, rawFrom, rawLimit)
  \/ \E caller \in Callers, peer \in Users : PostDmBegin(1, caller, peer)
  \/ \E body \in PostBodies : PostDmFinish(1, body)
  \/ \E caller \in Callers, peer \in Users, rawFrom \in RoundTripFrom,
        rawLimit \in RoundTripLimit : GetDmMessages(caller, peer, rawFrom, rawLimit)

SpecRead == Init /\ [][NextRead]_vars

\* posts and reads of the second server-bun variant, on room "general"
StoreReadSeq == {Absent} \cup (0..(MaxMsgs + 1))
StoreReadLimit == {Absent} \cup (1..MaxMsgs)
NextStoreRead ==
  \/ \E h \in Handlers, userId \in Users, room_name \in {General, "a"} :
        ApiPostBegin(h, userId, room_name)
  \/ \E h \in Handlers, body \in PostBodies : ApiPostFinish(h, body)
  \/ \E userId \in Users, room_name \in {General, "a"}, rawFrom \in StoreReadSeq,
        rawLimit \in StoreReadLimit : ApiForward(userId, room_name, rawFrom, rawLimit)
  \/ \E userId \in Users, room_name \in {General, "a"}, rawBefore \in StoreReadSeq,
        rawLimit \in StoreReadLimit : ApiBackfill(userId, room_name, rawBefore, rawLimit)

SpecStoreRead == Init /\ [][NextStoreRead]_vars

\* the sessions of bun-server-implementation and the posts fanned out to them
NextFanout ==
  \/ AuthGuest
  \/ createRoom(Owner)
  \/ \E hdr \in Users : Rtm(hdr, NoTicket, NoUser, <<>>, TRUE, "")
  \/ \E s \in Sessions, subs \in SUBSET Rooms, dms \in BOOLEAN : Hello(s, subs, dms)
  \/ \E h \in Handlers, caller \in Users, room \in Rooms : PostRoomBegin(h, caller, room)
  \/ \E h \in Handlers : PostRoomFinish(h, [text |-> "hi"])
  \/ \E caller \in Users, peer \in Users : PostDmBegin(1, caller, peer)
  \/ PostDmFinish(1, [text |-> "hi"])

SpecFanout == Init /\ [][NextFanout]_vars

\* concurrent posters and the sessions of bun-server-implementation and of the
\* second server-bun variant
NextOrder ==
  \/ AuthGuest
  \/ createRoom(Owner)
  \/ Rtm(Owner, NoTicket, NoUser, <<>>, TRUE, "")
  \/ \E s \in Sessions, subs \in SUBSET Rooms : Hello(s, subs, FALSE)
  \/ \E h \in Handlers, caller \in Users, room \in Rooms : PostRoomBegin(h, caller, room)
  \/ \E h \in Handlers : PostRoomFinish(h, [text |-> "hi"])
  \/ issueTicket(Alice)
  \/ \E qp \in Tickets : upgradeToRtm(qp, NoTicket, "", TRUE)
  \/ \E h \in Handlers, userId \in Users : ApiPostBegin(h, userId, General)
  \/ \E h \in Handlers : ApiPostFinish(h, [text |-> "hi"])

SpecOrder == Init /\ [][NextOrder]_vars

\* posts of both servers to sessions whose sends may fail
NextSendFail ==
  \/ AuthGuest
  \/ createRoom(Owner)
  \/ Rtm(Owner, NoTicket, NoUser, <<>>, TRUE, "")
  \/ \E s \in Sessions, subs \in SUBSET Rooms : Hello(s, subs, FALSE)
  \/ \E s \in Sessions : SocketError(s)
  \/ \E caller \in Users, room \in Rooms : PostRoomBegin(1, caller, room)
  \/ PostRoomFinish(1, [text |-> "hi"])
  \/ issueTicket(Alice)
  \/ \E qp \in Tickets : upgradeToRtm(qp, NoTicket, "", TRUE)
  \/ \E u \in Users, k \in Sessions : StoreSocketError(u, k)
  \/ \E userId \in Users : ApiPostBegin(1, userId, General)
  \/ \E body \in PostBodies : ApiPostFinish(1, body)

SpecSendFail == Init /\ [][NextSendFail]_vars

\* the heartbeats of the sessions of both servers
StoreSocks == Users \X Sessions
NextHeartbeat ==
  \/ AuthGuest
  \/ createRoom(Owner)
  \/ \E hdr \in Users : Rtm(hdr, NoTicket, NoUser, <<>>, TRUE, "")
  \/ \E s \in Sessions, subs \in SUBSET Rooms, dms \in BOOLEAN : Hello(s, subs, dms)
  \/ \E s \in Sessions : SocketError(s)
  \/ \E s \in Sessions : Ping(s)
  \/ \E s \in Sessions : Pong(s)
  \/ \E user_id \in Users : issueTicket(user_id)
  \/ \E qp \in Tickets : upgradeToRtm(qp, NoTicket, "", TRUE)
  \/ \E sock \in StoreSocks : StoreSocketError(sock[1], sock[2])
  \/ \E sock \in StoreSocks : StorePing(sock)
  \/ \E sock \in StoreSocks : StorePong(sock)

SpecHeartbeat == Init /\ [][NextHeartbeat]_vars

\* the upgrade paths of the three servers, with the Origin header of the request
UpgradeOrigins == Origins \cup {"http://localhost:3000"}
NextOrigin ==
  \/ AuthGuest
  \/ \E caller \in TicketUsers : RtmTicket(caller)
  \/ \E hdr \in Users \cup {NoUser}, qp \in Presented, upgraded \in BOOLEAN,
        origin \in UpgradeOrigins : Rtm(hdr, qp, NoUser, <<>>, upgraded, origin)
  \/ \E username \in TicketUsers : DbRtmTicket(username)
  \/ \E qp \in Presented, upgraded \in BOOLEAN, origin \in UpgradeOrigins :
        DbRtm(NoTicket, qp, upgraded, origin)
  \/ \E user_id \in TicketUsers : issueTicket(user_id)
  \/ \E qp \in Presented, ok \in BOOLEAN, origin \in UpgradeOrigins :
        upgradeToRtm(qp, NoTicket, origin, ok)

SpecOrigin == Init /\ [][NextOrigin]_vars

\* posts that name a parent message
ThreadBodies == {[text |-> "hi"]} \cup {[text |-> "re", parent_id |-> id] : id \in 1..MaxMsgs + 1}
NextThreads ==
  \/ AuthGuest
  \/ createRoom(Owner)
  \/ \E caller \in Users, room \in Rooms : PostRoomBegin(1, caller, room)
  \/ \E body \in ThreadBodies : PostRoomFinish(1, body)
  \/ \E userId \in Users : ApiPostBegin(1, userId, General)
  \/ \E body \in ThreadBodies : ApiPostFinish(1, body)

SpecThreads == Init /\ [][NextThreads]_vars

\* posts with and without a valid body, on the paths that touch state before
\* the body is read
NextRejected ==
  \/ AuthGuest
  \/ \E h \in Handlers, caller \in Users, peer \in Users : PostDmBegin(h, caller, peer)
  \/ \E h \in Handlers, body \in PostBodies : PostDmFinish(h, body)
  \/ \E h \in Handlers, userId \in Users : ApiPostBegin(h, userId, General)
  \/ \E h \in Handlers, body \in PostBodies : ApiPostFinish(h, body)

SpecRejected == Init /\ [][NextRejected]_vars

\* pins, with the posts and deletions of the messages they name
PinBodies == {NoBody} \cup {[message_id |-> m] : m \in 1..MaxMsgs + 1}
NextPins ==
  \/ AuthGuest
  \/ createRoom(Owner)
  \/ \E caller \in Users, room \in Rooms : PostRoomBegin(1, caller, room)
  \/ PostRoomFinish(1, [text |-> "hi"])
  \/ \E caller \in Callers, room_id \in Rooms, body \in PinBodies :
        PostPin(caller, room_id, body)
  \/ \E caller \in Callers, room_id \in Rooms, m \in MsgIds : DeletePin(caller, room_id, m)
  \/ \E caller \in Callers, m \in MsgIds : DeleteMessage(caller, m)
  \/ \E caller \in Callers, room_id \in DOMAIN rooms : JoinRoom(caller, room_id)
  \/ \E caller \in Callers, room_id \in DOMAIN rooms : LeaveRoom(caller, room_id)

SpecPins == Init /\ [][NextPins]_vars

\* profile updates
PatchMeBodies ==
  {NoBody, [display_name |-> "x"]} \cup {[user_id |-> id] : id \in 1..MaxUsers + 1}
NextProfile ==
  \/ AuthGuest
  \/ \E h \in Handlers, caller \in Callers : PatchMeBegin(h, caller)
  \/ \E h \in Handlers, body \in PatchMeBodies : PatchMeFinish(h, body)

SpecProfile == Init /\ [][NextProfile]_vars

\* sockets that open, subscribe, are pinged and close
NextClose ==
  \/ AuthGuest
  \/ createRoom(Owner)
  \/ \E hdr \in Users : Rtm(hdr, NoTicket, NoUser, <<>>, TRUE, "")
  \/ \E s \in Sessions, subs \in SUBSET Rooms, dms \in BOOLEAN : Hello(s, subs, dms)
  \/ \E s \in Sessions : Ping(s)
  \/ \E s \in Sessions, dispatched \in BOOLEAN : Close(s, dispatched)
  \/ \E user_id \in Users : issueTicket(user_id)
  \/ \E qp \in Tickets : upgradeToRtm(qp, NoTicket, "", TRUE)
  \/ \E sock \in StoreSocks : StorePing(sock)
  \/ \E sock \in StoreSocks : StoreClose(sock)

SpecClose == Init /\ [][NextClose]_vars

HelloRooms == 1..MaxHelloRooms
\* sessions whose sends fail, with the heartbeat timers firing (setInterval
\* keeps calling the callback of every timer that is set)
NextTeardown ==
  \/ AuthGuest
  \/ createRoom(Owner)
  \/ \E hdr \in Users : Rtm(hdr, NoTicket, NoUser, <<>>, TRUE, "")
  \/ \E s \in Sessions, subs \in SUBSET Rooms, dms \in BOOLEAN : Hello(s, subs, dms)
  \/ \E s \in Sessions : SocketError(s)
  \/ \E s \in Sessions : Ping(s)
  \/ \E caller \in Users, room \in Rooms : PostRoomBegin(1, caller, room)
  \/ PostRoomFinish(1, [text |-> "hi"])

SpecTeardown ==
  Init /\ [][NextTeardown]_vars /\ \A s \in Sessions : WF_vars(Ping(s))

\* hellos, repeated and changed, on sessions of several users
NextAttach ==
  \/ AuthGuest
  \/ \E hdr \in Users : Rtm(hdr, NoTicket, NoUser, <<>>, TRUE, "")
  \/ \E s \in Sessions, subs \in SUBSET HelloRooms, dms \in BOOLEAN : Hello(s, subs, dms)
  \/ \E s \in Sessions : SocketError(s)

SpecAttach == Init /\ [][NextAttach]_vars

\* ================================================================== claims
\* the seqs of a log in log order are 1..n and the next post takes n+1
GapFree(arr, counter) ==
  /\ \A i \in 1..Len(arr) : arr[i].seq = i
  /\ AllocSeq(counter) = Len(arr) + 1

\* C1: in every reachable state, in every room stream and every DM stream the
\* seqs of the stored messages in log order are exactly 1..n and the next post
\* receives n+1, whatever posts, edits and deletes came before.
C1_SeqGapFree ==
  /\ \A r \in DOMAIN roomMessages : GapFree(roomMessages[r], roomNextSeq[r])
  /\ \A k \in DOMAIN dmPairs : GapFree(dmPairs[k], dmNextSeq[k])

\* the number of messages in the logs of the rooms
RECURSIVE Stored(_)
Stored(ids) ==
  IF ids = <<>> THEN 0 ELSE Len(roomMessages[Head(ids)]) + Stored(Tail(ids))

\* C2: posts to one room interleaved at their awaits never share or skip a
\* seq: the N posts completed so far left N messages with seq 1..N, once each,
\* in the room of bun-server-implementation and in "general" of server-bun.
C2_ConcurrentPostsSeq ==
  /\ \A r \in DOMAIN roomMessages :
        \A i \in 1..Len(roomMessages[r]) : roomMessages[r][i].seq = i
  /\ \A i \in 1..Len(storeMessages) : storeMessages[i].seq = i
  /\ storeSeq = Len(storeMessages)
  /\ \A r \in DOMAIN roomMessages : roomNextSeq[r] = Len(roomMessages[r]) + 1
  /\ nextId = Len(storeMessages) + Stored(SetToSeq(DOMAIN roomMessages))

\* C2, its case: on each server a post stored its message while a post that
\* arrived no earlier than it was still suspended at its await
C2_Interleaved ==
  /\ last = Response("post_room", 201)
  /\ reqs[1] = Idle /\ reqs[2].pc = "post_room"
  /\ apiReqs[1] = Idle /\ apiReqs[2].pc = "post"
  /\ Len(storeMessages) = 1

\* C3: in every reachable state, two messages of one stream with
\* m1.seq < m2.seq have m1.ts <= m2.ts, whatever posts, edits and deletes came
\* before and whatever the (monotone) wall clock returned.
TsMonotone(arr) ==
  \A i \in 1..Len(arr), j \in 1..Len(arr) : arr[i].seq < arr[j].seq => arr[i].ts <= arr[j].ts
C3_TsMonotone ==
  /\ \A r \in DOMAIN roomMessages : TsMonotone(roomMessages[r])
  /\ \A k \in DOMAIN dmPairs : TsMonotone(dmPairs[k])

\* C4: for every ticket and every server, at most one validation of the ticket
\* returns a user; every later presentation of it is rejected.
C4_TicketSingleUse ==
  \A k \in DOMAIN granted : Len(granted[k]) <= 1

\* C4, its case: a ticket that was accepted is presented again, at the very
\* time of its acceptance, and the upgrade is rejected
RejectedAgain(server, op, status) ==
  /\ last.op = op /\ last.status = status /\ last.ticket = NoTicket
  /\ \E t \in last.presented :
        /\ <<server, t>> \in DOMAIN granted
        /\ granted[<<server, t>>] = <<now>>
C4_SecondRejected ==
  \/ RejectedAgain("bun", "rtm", 401)
  \/ RejectedAgain("db", "db_rtm", 403)
  \/ RejectedAgain("api", "api_rtm", 400)

\* the validations of ticket t by the server that returned a user
Grants(g, server, t) == IF <<server, t>> \in DOMAIN g THEN g[<<server, t>>] ELSE <<>>
\* this step's validation of ticket t by the server returned a user
Accepted(server, t) == Len(Grants(granted', server, t)) > Len(Grants(granted, server, t))

\* C5: a ticket presented at time now is accepted iff it has not been used and
\* now < expires_at; presented at now = expires_at or later it is rejected and
\* not marked used; in the /rtm handler of handleRequest, in DB.useTicket and in
\* upgradeToRtm.
C5_TicketExpiry ==
  [][\A t \in Tickets, up \in BOOLEAN :
       /\ ( /\ \/ Rtm(NoUser, t, NoUser, <<>>, up, "")
                \/ Rtm(NoUser, NoTicket, NoUser, <<[kind |-> "ticket", id |-> t]>>, up, "")
            /\ t \in DOMAIN wsTickets )
          => /\ Accepted("bun", t) <=> (~wsTickets[t].used /\ now < wsTickets[t].expires_at)
             /\ now >= wsTickets[t].expires_at => wsTickets'[t].used = wsTickets[t].used
       /\ ( /\ DbRtm(t, NoTicket, up, "") \/ DbRtm(NoTicket, t, up, "")
            /\ t \in DOMAIN dbTickets )
          => /\ Accepted("db", t) <=> (~dbTickets[t].used /\ now < dbTickets[t].expires_at)
             /\ now >= dbTickets[t].expires_at => dbTickets'[t].used = dbTickets[t].used
       /\ ( /\ upgradeToRtm(t, NoTicket, "", up) \/ upgradeToRtm(NoTicket, t, "", up)
            /\ t \in DOMAIN storeTickets )
          => /\ Accepted("api", t) <=> now < storeTickets[t].expires_at
             /\ now >= storeTickets[t].expires_at => t \in DOMAIN storeTickets'
    ]_vars

\* the frames of a step that are event.message.edit events sent to socket s
EditFramesTo(frames, s) ==
  {i \in 1..Len(frames) : frames[i].type = "event.message.edit" /\ frames[i].to = s}

\* the sockets subscribed to the room
SubscribedTo(room) == IF room \in DOMAIN byRoom THEN byRoom[room] ELSE {}

KeptByEdit == {"seq", "ts", "message_id", "author_id", "room_id", "tombstone"}

\* C7: a successful edit changes only text, attachments and edited_at: for
\* every request body, seq, ts, message_id, author_id, room_id and tombstone of
\* the stored message are the same before and after the edit.
C7_EditFrame ==
  [][\A body \in PatchBodies :
       (PatchFinish(1, body) /\ last' = Response("patch", 200))
       => LET r == reqs[1]
          IN \A f \in KeptByEdit :
               roomMessages'[r.room][r.idx][f] = roomMessages[r.room][r.idx][f]
    ]_vars

\* the caller is the author of the message or moderator, admin or owner of its room
MayDelete(caller, m) ==
  /\ caller \in users
  /\ \/ m.author_id = caller
     \/ /\ caller \in DOMAIN roomMembers[m.room_id]
        /\ roomMembers[m.room_id][caller] \in {"moderator", "admin", "owner"}

\* C8: a DELETE takes effect only for the author or a moderator, admin or
\* owner of the room; for every other caller, an unauthenticated one included,
\* it is refused, the message keeps tombstone = false and no
\* event.message.delete is published.
C8_DeleteAuthorized ==
  [][\A caller \in Callers, mid \in MsgIds :
       ( /\ DeleteMessage(caller, mid)
         /\ FindMsg(mid)[1] # NoRoom
         /\ ~MayDelete(caller, roomMessages[FindMsg(mid)[1]][FindMsg(mid)[2]]) )
       => /\ last'.status \in {401, 403}
          /\ roomMessages' = roomMessages
          /\ sent' = <<>>
    ]_vars

\* C9: once a message is deleted it keeps tombstone = true and its seq in
\* every later state, hence in every later read, whatever operations follow;
\* every edit attempted on it afterwards returns forbidden and does not
\* change it.
C9_TombstonePermanent ==
  [][/\ \A r \in DOMAIN roomMessages : \A i \in 1..Len(roomMessages[r]) :
          roomMessages[r][i].tombstone
          => /\ roomMessages'[r][i].tombstone
             /\ roomMessages'[r][i].seq = roomMessages[r][i].seq
     /\ \A caller \in Callers, mid \in MsgIds :
          ( /\ PatchBegin(1, caller, mid)
            /\ caller \in users
            /\ FindMsg(mid)[1] # NoRoom
            /\ roomMessages[FindMsg(mid)[1]][FindMsg(mid)[2]].tombstone )
          => last' = Response("patch", 403) /\ reqs' = reqs
    ]_vars

\* the message objects a step handed out: in its response and in its frames
Returned ==
  {last.messages[i] : i \in (IF "messages" \in DOMAIN last
                               THEN 1..Len(last.messages) ELSE {})}
  \cup {sent[i].message : i \in {j \in 1..Len(sent) : "message" \in DOMAIN sent[j]}}

\* C10: no external read returns the text of a tombstoned message: every
\* message object with tombstone = true returned by a forward or backfill read
\* or carried by an event has its text cleared.
C10_NoTombstonedText ==
  \A m \in Returned : m.tombstone => m.text = ""

\* the count the stored message reports for the emoji, 0 when it lists none
Reported(m, e) ==
  LET at == {i \in 1..Len(m.reactions) : m.reactions[i].emoji = e}
  IN IF at = {} THEN 0 ELSE m.reactions[CHOOSE i \in at : TRUE].count

\* the users whose last reaction request served for the message and emoji was an add
LastAdded(mid, e) ==
  {u \in Users : <<mid, e, u>> \in DOMAIN reacted /\ reacted[<<mid, e, u>>] = "POST"}

\* C11: after any sequence of add and remove requests, for every message and
\* emoji the reported count is the number of distinct users whose last reaction
\* request for it was an add, every emoji is listed at most once, and an add by
\* a user who already reacted leaves the stored message as it was.
C11_ReactionCounts ==
  /\ \A r \in DOMAIN roomMessages : \A i \in 1..Len(roomMessages[r]) :
        LET m == roomMessages[r][i]
        IN /\ \A e \in Emojis : Reported(m, e) = Cardinality(LastAdded(m.message_id, e))
           /\ \A j, k \in 1..Len(m.reactions) :
                 m.reactions[j].emoji = m.reactions[k].emoji => j = k
  /\ ("reactions" \in DOMAIN last /\ last.status = 200)
        => \A i \in 1..Len(last.reactions) :
              last.reactions[i].count
                = Cardinality(LastAdded(last.message_id, last.reactions[i].emoji))

\* C11, its case: one emoji of a message carries the reactions of two users and
\* another, added and removed again, carries none
C11_TwoUsersOneEmoji ==
  /\ last.op = "react" /\ last.status = 200
  /\ \E i \in 1..Len(last.reactions) : last.reactions[i].count = 2
  /\ \E i \in 1..Len(last.reactions) : last.reactions[i].count = 0

\* C12: in every reachable state and for every room, counts.members is the
\* number of entries of the room's membership map, after any create room, join,
\* invite, leave and room PATCH, in bun-server-implementation.
C12_MemberCount ==
  \A r \in DOMAIN rooms :
     countsHeap[rooms[r].counts] = Cardinality(DOMAIN roomMembers[r])

\* the same count in InMemoryStore, kept by createRoom, joinRoom and leaveRoom
StoreMemberCount ==
  \A k \in DOMAIN storeRooms :
     storeRooms[k].counts = Cardinality(DOMAIN storeRooms[k].members)

\* C13: in every reachable state no two distinct rooms have names that are
\* equal ignoring case, after any sequence of create-room and rename operations,
\* in bun-server-implementation (rooms) and in InMemoryStore (storeRooms).
C13_UniqueNames ==
  /\ \A r1, r2 \in DOMAIN rooms :
        r1 # r2 => toLowerCase(rooms[r1].name) # toLowerCase(rooms[r2].name)
  /\ \A k1, k2 \in DOMAIN storeRooms :
        k1 # k2 => toLowerCase(storeRooms[k1].name) # toLowerCase(storeRooms[k2].name)

\* the greatest of the seqs of a sequence of acks, 0 for none
RECURSIVE Greatest(_)
Greatest(seqs) == IF seqs = <<>> THEN 0 ELSE Max(Head(seqs), Greatest(Tail(seqs)))

\* C14: for every user and room of InMemoryStore, getCursor returns the greatest
\* seq passed to setCursor so far (max(a, b) after setCursor a then b), and 0
\* for a user who never acknowledged; the acks only accumulate, so the cursor
\* never decreases.
C14_CursorMax ==
  /\ \A u \in Users, k \in DOMAIN storeRooms :
        getCursor(u, k) = Greatest(Acked(<<"store", u, k>>))
  /\ last.op = "api_cursor" /\ last.status = 200 =>
        last.seq = Greatest(Acked(<<"store", last.userId, last.key>>))

\* a user acknowledged a seq and then a smaller one, and read the cursor
C14_SmallerAfterGreater ==
  /\ last.op = "api_cursor" /\ last.status = 200
  /\ LET a == Acked(<<"store", last.userId, last.key>>)
     IN Len(a) >= 2 /\ a[2] < a[1] /\ last.seq = a[1]

\* C15: the ack endpoints of handleRequest only advance a cursor: after an ack
\* with seq s on a stream whose cursor for the user was c, the cursor read
\* returns max(c, s); so the cursor of every room and DM stream is the greatest
\* seq acknowledged on it so far, and so is the seq a cursor read answers.
C15_AckAdvances ==
  /\ \A stream \in DOMAIN acked :
        /\ stream[1] = "room" =>
              CursorAt(roomCursors, stream[3], stream[2]) = Greatest(acked[stream])
        /\ stream[1] = "dm" =>
              CursorAt(dmCursors, pairKey(stream[2], stream[3]), stream[2])
                 = Greatest(acked[stream])
  /\ last.op \in {"cursor_room", "cursor_dm"} /\ last.status = 200 =>
        last.seq = Greatest(Acked(last.stream))

\* the log of a room or DM stream of bun-server-implementation
LogOf(stream) ==
  IF stream[1] = "room" THEN roomMessages[stream[2]] ELSE dmPairs[stream[2]]

Applied(rawLimit) == IF rawLimit = Absent THEN 50 ELSE rawLimit

\* C17: InMemoryStore.listMessages(room, from_seq, limit) returns exactly the
\* first `limit` messages of the room with seq >= from_seq, in ascending seq
\* order, for every from_seq, one greater than every stored seq included;
\* next_seq is last(slice).seq + 1, or the last assigned seq + 1 when the slice
\* is empty.
C17_ListMessages ==
  last.op = "api_forward" /\ last.status = 200 =>
     LET log == StoreLog(last.stream[2])
         from == IF last.from_seq = Absent THEN 0 ELSE last.from_seq
         want == Take(SeqAtLeast(log, from), Applied(last.limit))
     IN /\ last.messages = want
        /\ \A i, j \in 1..Len(last.messages) :
              i < j => last.messages[i].seq < last.messages[j].seq
        /\ last.next_seq = IF Len(want) > 0 THEN want[Len(want)].seq + 1
                           ELSE StoreLastSeq(last.stream[2]) + 1

\* C18: InMemoryStore.backfillMessages(room, before_seq, limit) returns exactly
\* the last `limit` messages of the room with seq < before_seq, in ascending seq
\* order, for every before_seq, one at or below the first stored seq and one
\* above every stored seq included; prev_seq is first(slice).seq, or 0 when the
\* slice is empty.
C18_BackfillMessages ==
  last.op = "api_backfill" /\ last.status = 200 =>
     LET log == StoreLog(last.stream[2])
         below == IF last.before_seq = Absent THEN log ELSE SeqBelow(log, last.before_seq)
         want == TakeLast(below, Applied(last.limit))
     IN /\ last.messages = want
        /\ \A i, j \in 1..Len(last.messages) :
              i < j => last.messages[i].seq < last.messages[j].seq
        /\ last.prev_seq = IF Len(want) > 0 THEN want[1].seq ELSE 0

\* the messages of the logs of f
Logged(f) == UNION {{f[k][i] : i \in 1..Len(f[k])} : k \in DOMAIN f}

\* the message of the post answered by the last step: ids are handed out in
\* posting order
Posted == CHOOSE m \in Logged(roomMessages) \cup Logged(dmPairs) : m.message_id = nextId

\* the sessions subscribed to the stream of message m
StreamSessions(m) ==
  IF m.room_id # NoRoom
    THEN SubscribedTo(m.room_id)
    ELSE UNION {byUserDM[u] : u \in {m.author_id, m.dm_peer_id} \cap DOMAIN byUserDM}

\* the event.message.create frames for message m handed to session s by the last step
Creates(s, m) ==
  {i \in 1..Len(sent) : /\ sent[i].to = s /\ sent[i].type = "event.message.create"
                        /\ sent[i].message = m}

\* C19: for every posted message, each open session subscribed to its stream
\* at publish time receives exactly one event.message.create frame for it, on
\* room streams and on DM streams, for every pair of author and peer.
C19_ExactlyOneFrame ==
  last.op \in {"post_room", "post_dm"} /\ last.status = 201 =>
     \A s \in StreamSessions(Posted) : Cardinality(Creates(s, Posted)) = 1

\* the log a frame's message belongs to
FrameLog(f) ==
  IF f.server = "api" THEN storeMessages
  ELSE IF f.message.room_id # NoRoom THEN roomMessages[f.message.room_id]
  ELSE dmPairs[pairKey(f.message.author_id, f.message.dm_peer_id)]

\* two frames went to the same session on the same stream
SameSessionStream(f, g) ==
  /\ f.server = g.server
  /\ f.to = g.to
  /\ f.message.room_id = g.message.room_id
  /\ f.server = "bun" /\ f.message.room_id = NoRoom =>
        pairKey(f.message.author_id, f.message.dm_peer_id)
           = pairKey(g.message.author_id, g.message.dm_peer_id)

\* C20: mutate then publish: the message of every event.message.create frame a
\* session received is in its stream's log, and every session receives the
\* create events of one stream in strictly increasing seq order, under any
\* interleaving of concurrent posters.
C20_PublishOrder ==
  /\ \A i \in 1..Len(received) :
        \E k \in 1..Len(FrameLog(received[i])) :
           FrameLog(received[i])[k] = received[i].message
  /\ \A i, j \in 1..Len(received) :
        i < j /\ SameSessionStream(received[i], received[j]) =>
           received[i].message.seq < received[j].message.seq

\* one session received the create events of the posts of two authors on one
\* stream
C20_OvertakenPoster ==
  \E i, j \in 1..Len(received) :
     /\ i < j /\ SameSessionStream(received[i], received[j])
     /\ received[i].message.author_id # received[j].message.author_id

\* C21: a send failure on one session during a broadcast does not reach the
\* mutator and does not affect the others: the post that caused the publish is
\* answered with its normal result, 201 once the message is stored, and every
\* subscribed session whose send does not fail received the create frame.
C21_SendFailureAbsorbed ==
  /\ last.op \in {"post_room", "api_post"} => last.status \in {201, 400, 401, 403, 404}
  /\ last.op = "post_room" /\ last.status = 201 =>
        \A s \in SubscribedTo(Posted.room_id) \ broken : Creates(s, Posted) # {}
  /\ last.op = "api_post" /\ Len(storeMessages) > 0 /\ last.status \in {201, 500} =>
        \A i \in 1..Len(MemberSockets) :
           MemberSockets[i] \notin storeBroken =>
              Creates(MemberSockets[i], storeMessages[Len(storeMessages)]) # {}

\* the sockets open in InMemoryStore.sockets
StoreOpen == {sock \in StoreSocks : /\ sock[1] \in DOMAIN storeSockets
                                    /\ sock[2] \in 1..storeSockets[sock[1]]}

\* C22: heartbeat disconnect: a session that answers no pong to two consecutive
\* pings is closed by the server and leaves the hub's indexes, so no open
\* session is ever sent a third ping in a row without a pong in between; a
\* pong resets the count.
C22_HeartbeatDisconnect ==
  /\ \A s \in DOMAIN sockets : unanswered[s] <= 2
  /\ \A sock \in StoreOpen : storeUnanswered[sock] <= 2

\* C23: origin allowlist: an upgrade whose Origin header is non-empty and not in
\* the allowlist opens no session (is never answered 101), whatever credential
\* it carries, on every upgrade path of the servers.
C23_OriginAllowlist ==
  (last.op \in {"rtm", "db_rtm", "api_rtm"} /\ ~isOriginAllowed(last.origin))
    => last.status # 101

\* the messages of a stream that name a parent outside the stream
Orphans(log) ==
  {i \in 1..Len(log) : /\ log[i].parent_id # 0
                       /\ \A j \in 1..Len(log) : log[j].message_id # log[i].parent_id}

\* C24: parent_id is validated: a post whose parent_id does not resolve to a
\* message of the same stream stores nothing, so every stored message's
\* non-null parent_id names a message that exists in the same stream.
C24_ParentExists ==
  /\ \A room \in DOMAIN roomMessages : Orphans(roomMessages[room]) = {}
  /\ Orphans(storeMessages) = {}

\* C25: every state-changing operation requires a valid bearer token: a request
\* to pin or unpin in an existing room, to delete an existing message, to join
\* or to leave, sent with no token or with a token never issued, is answered
\* 401 and leaves pins, messages and memberships unchanged.
C25_TokenRequired ==
  [][\A caller \in Callers, room_id \in DOMAIN rooms, m \in MsgIds :
       ( /\ ~Authed(caller)
         /\ \/ PostPin(caller, room_id, [message_id |-> m])
            \/ DeletePin(caller, room_id, m)
            \/ DeleteMessage(caller, m) /\ FindMsg(m)[1] # NoRoom
            \/ JoinRoom(caller, room_id)
            \/ LeaveRoom(caller, room_id) )
       => /\ last'.status = 401
          /\ UNCHANGED <<pinned, roomMessages, roomMembers, countsHeap>>
    ]_vars

\* the DM streams that no stored message and no request in progress accounts for
StrayPairs ==
  {key \in DOMAIN dmPairs :
     /\ dmPairs[key] = <<>>
     /\ \A h \in Handlers : ~(reqs[h].pc = "post_dm" /\ reqs[h].key = key)}

\* the members of general, its owner apart, that no stored message and no
\* request in progress accounts for
StrayMembers ==
  {u \in DOMAIN storeRooms[General].members :
     /\ u # storeRooms[General].owner_id
     /\ \A i \in 1..Len(storeMessages) : storeMessages[i].author_id # u
     /\ \A h \in Handlers : ~(apiReqs[h].pc = "post" /\ apiReqs[h].userId = u)}

\* C26: validation errors never mutate state: where posts are the only
\* operations, a post answered bad_request leaves the DM stream table and the
\* memberships as they were, so once it is answered every DM stream and every
\* membership belongs to a stored message or to a request still in progress.
C26_ValidationNoMutation ==
  /\ (last.op = "post_dm" /\ last.status = 400) => StrayPairs = {}
  /\ (last.op = "api_post" /\ last.status = 400) => StrayMembers = {}

\* the pinned ids of a room that name no message of the room's stream
Dangling(room_id) ==
  {i \in 1..Len(pinned[room_id]) :
     \A j \in 1..Len(roomMessages[room_id]) :
        roomMessages[room_id][j].message_id # pinned[room_id][i]}

\* C28: in every reachable state each room's pinned_message_ids holds only ids
\* of messages that exist in that room's stream, and holds no id twice.
C28_PinsInRoom ==
  \A room_id \in DOMAIN pinned :
     /\ Dangling(room_id) = {}
     /\ \A i, j \in 1..Len(pinned[room_id]) :
           pinned[room_id][i] = pinned[room_id][j] => i = j

\* C27: user_id is immutable: after any profile update the record filed under
\* a key carries that key as its user_id, so every token still resolves to a
\* user with the user_id the token was issued for, and no record is filed
\* under a key that was never issued.
C27_UserIdImmutable ==
  /\ DOMAIN profiles = users
  /\ \A caller \in users : authedUser(caller).user_id = caller

\* the members of a room whose role is owner
Owners(room_id) ==
  {u \in DOMAIN roomMembers[room_id] : roomMembers[room_id][u] = "owner"}

\* C29: in every reachable state every room has exactly one member whose role
\* is owner, after any sequence of create room, join, invite and leave.
C29_OneOwner ==
  \A room_id \in DOMAIN rooms : Cardinality(Owners(room_id)) = 1

\* the indexes and timers of the hub that still hold socket s
Attached(s) ==
  \/ s \in DOMAIN sockets
  \/ \E room \in DOMAIN byRoom : s \in byRoom[room]
  \/ \E u \in DOMAIN byUserDM : s \in byUserDM[u]
  \/ s \in timers

\* C30: socket close detaches the session: after a session's close event the
\* session is in none of allSockets, the byRoom sets and the byUserDM sets and
\* its heartbeat timer is cancelled, so that no broadcast and no ping reaches
\* it; likewise for the sockets of InMemoryStore.sockets.
C30_CloseDetaches ==
  /\ \A s \in closed : ~Attached(s)
  /\ \A sock \in storeClosed : sock \notin StoreOpen /\ sock \notin storeTimers

\* a heartbeat ping to socket s has failed: ws.send throws on it and its
\* interval was cleared by the catch
SendFailed(s) == s \in DOMAIN sockets /\ s \in broken /\ s \notin timers

\* C31: a session on which a send fails is torn down: it is eventually removed
\* from allSockets and from every byRoom and byUserDM set, so that later
\* publishes do not target it.
C31_FailedSessionTornDown ==
  \A s \in Sessions : SendFailed(s) ~> ~Attached(s)

\* socket s is in byRoom[r] iff r is in its ws.data.rooms, and in byUserDM[u]
\* iff u is its own user and its ws.data.dms is true
Exact(s) ==
  /\ \A r \in HelloRooms :
        (r \in DOMAIN byRoom /\ s \in byRoom[r]) <=> r \in sockets[s].rooms
  /\ \A u \in Users :
        (u \in DOMAIN byUserDM /\ s \in byUserDM[u])
          <=> (u = sockets[s].user_id /\ sockets[s].dms)

DmFrames ==
  {i \in 1..Len(sent) : /\ sent[i].type = "event.message.create"
                        /\ sent[i].message.room_id = NoRoom}

\* C33: a DM event for the pair (a, b) is delivered only to sessions
\* authenticated as a or as b that subscribed with dms = true: never to a
\* session of a third user, nor to a session whose dms is false.
C33_DmOnlyToParties ==
  \A i \in DmFrames :
     /\ sockets[sent[i].to].user_id \in {sent[i].message.author_id, sent[i].message.dm_peer_id}
     /\ sockets[sent[i].to].dms

\* a DM event has been delivered to a session
C33_DmDelivered == DmFrames # {}

\* ------------------------------------------------------------ ack frames
\* one entry of the cursors object of an ack frame: the key "<prefix>:<rest>"
\* and its value v, finite being Number.isFinite(v)
AckEntry(prefix, rest, finite, v) ==
  [prefix |-> prefix, rest |-> rest, finite |-> finite, v |-> v]

\* the cursors objects a client of the hub sends: room ids and peer user ids
AckFrames ==
  {<<>>} \cup {<<AckEntry("room", r, TRUE, n)>> : r \in Rooms, n \in AckSeqs}
         \cup {<<AckEntry("dm", u, TRUE, n)>> : u \in Users, n \in AckSeqs}
         \cup {<<AckEntry("room", r, TRUE, n), AckEntry("dm", u, TRUE, n)>> :
                 r \in Rooms, u \in Users, n \in AckSeqs}

\* the cursors objects a client of the store-backed server sends: room names
\* and peer user ids
StoreAckFrames ==
  {<<>>} \cup {<<AckEntry("room", k, f, n)>> : k \in {General, "a"}, f \in BOOLEAN, n \in AckSeqs}
         \cup {<<AckEntry("dm", u, TRUE, n)>> : u \in Users, n \in AckSeqs}
         \cup {<<AckEntry("room", k, TRUE, n), AckEntry("dm", u, TRUE, n)>> :
                 k \in {General, "a"}, u \in Users, n \in AckSeqs}

\* attachSocket ws.onmessage, an ack frame: the branch is empty
Ack(s, cursors) ==
  /\ s \in DOMAIN sockets /\ s \notin closed
  /\ last' = NoLast
  /\ sent' = <<>>
  /\ UNCHANGED <<now, nextId, nextTicket, bunVars, dbVars, storeVars, granted, extVars>>

\* InMemoryStore.setCursor on a given cursors map
CursorPut(cursors, user_id, room_id, seq) ==
  LET m == IF user_id \in DOMAIN cursors THEN cursors[user_id] ELSE <<>>
      prev == IF room_id \in DOMAIN m THEN m[room_id] ELSE 0
  IN Put(cursors, user_id, Put(m, room_id, Advanced(prev, seq)))

\* createWsApi onMessage, the loop over Object.entries(data.cursors)
RECURSIVE AckedCursors(_, _, _)
AckedCursors(cursors, userId, entries) ==
  IF entries = <<>> THEN cursors
  ELSE LET e == Head(entries)
           next == IF /\ e.finite
                      /\ e.prefix = "room"
                      /\ toLowerCase(e.rest) \in DOMAIN storeRooms
                    THEN CursorPut(cursors, userId, toLowerCase(e.rest), e.v)
                    ELSE cursors
       IN AckedCursors(next, userId, Tail(entries))

\* createWsApi onMessage, an ack frame
StoreAck(sock, cursors) ==
  /\ sock[1] \in DOMAIN storeSockets /\ sock[2] \in 1..storeSockets[sock[1]]
  /\ sock \notin storeClosed
  /\ storeCursors' = AckedCursors(storeCursors, sock[1], cursors)
  /\ last' = NoLast
  /\ sent' = <<>>
  /\ UNCHANGED <<now, nextId, nextTicket, bunVars, dbVars, storeVars, granted, reacted,
                 rooms, roomByName, countsHeap, roomCursors, dmCursors,
                 histVars, faultVars, hbVars, recVars, closeVars>>

NextWsAck ==
  \/ AuthGuest
  \/ \E hdr \in Users : Rtm(hdr, NoTicket, NoUser, <<>>, TRUE, "")
  \/ \E s \in Sessions, cursors \in AckFrames : Ack(s, cursors)
  \/ \E caller \in Users, room_id \in Rooms : GetRoomCursor(caller, room_id)
  \/ ApiCreateRoom(Owner, [name |-> "a", visibility |-> "public"])
  \/ issueTicket(Owner)
  \/ \E qp \in Tickets : upgradeToRtm(qp, NoTicket, "", TRUE)
  \/ \E sock \in StoreSocks, cursors \in StoreAckFrames : StoreAck(sock, cursors)
  \/ \E userId \in Users, room_name \in {General, "a"} : ApiCursor(userId, room_name)

SpecWsAck == Init /\ [][NextWsAck]_vars

\* C34: a WebSocket ack frame advances cursors: when an open session
\* receives ack{cursors}, then for each finite entry room:<key> -> seq and
\* dm:<user_id> -> seq the authenticated user's cursor on that stream becomes
\* max(existing, seq), which is what a following cursor read returns, and the
\* session stays open.
C34_AckFrameAdvances ==
  [][ /\ \A s \in Sessions, cursors \in AckFrames :
           Ack(s, cursors) =>
             /\ s \in DOMAIN sockets' /\ s \notin closed'
             /\ \A i \in DOMAIN cursors :
                  LET e == cursors[i]
                      u == sockets[s].user_id
                  IN /\ e.prefix = "room" =>
                          CursorAt(roomCursors', e.rest, u)
                             = Max(CursorAt(roomCursors, e.rest, u), e.v)
                     /\ e.prefix = "dm" =>
                          CursorAt(dmCursors', pairKey(u, e.rest), u)
                             = Max(CursorAt(dmCursors, pairKey(u, e.rest), u), e.v)
      /\ \A sock \in StoreSocks, cursors \in StoreAckFrames :
           StoreAck(sock, cursors) =>
             /\ sock \notin storeClosed'
             /\ \A i \in DOMAIN cursors :
                  LET e == cursors[i]
                  IN (e.finite /\ e.prefix = "room" /\ e.rest \in DOMAIN storeRooms) =>
                        CursorOf(storeCursors', sock[1], e.rest)
                           = Max(getCursor(sock[1], e.rest), e.v)
    ]_vars

\* C35: room rename is atomic with respect to the name index: under any
\* interleaving of concurrent room PATCH and create-room requests, the name
\* index maps a key k to room r iff k is the normalized current name of r (one
\* entry per room, no stale entry for an old name), in bun-server-implementation
\* (roomByName) and in InMemoryStore (the keys of storeRooms).
C35_NameIndexExact ==
  /\ \A k \in DOMAIN roomByName :
        /\ roomByName[k] \in DOMAIN rooms
        /\ normalizeRoomName(rooms[roomByName[k]].name) = k
  /\ \A r \in DOMAIN rooms :
        /\ normalizeRoomName(rooms[r].name) \in DOMAIN roomByName
        /\ roomByName[normalizeRoomName(rooms[r].name)] = r
  /\ \A k \in DOMAIN storeRooms : toLowerCase(storeRooms[k].name) = k

\* ------------------------------------------------------------ DB.react
\* m.reactions.find((x) => x.emoji === emoji): the index found, 0 when none
FoundReaction(reactions, emoji) ==
  IF \E i \in 1..Len(reactions) : reactions[i].emoji = emoji
    THEN CHOOSE i \in 1..Len(reactions) :
            /\ reactions[i].emoji = emoji
            /\ \A j \in 1..(i - 1) : reactions[j].emoji # emoji
    ELSE 0

\* DB.react: m.reactions after the call
DbReacted(reactions, emoji, add) ==
  LET pushed == IF FoundReaction(reactions, emoji) = 0 /\ add
                  THEN Append(reactions, [emoji |-> emoji, count |-> 0])
                  ELSE reactions
      r == FoundReaction(pushed, emoji)
  IN IF r = 0 THEN pushed
     ELSE [pushed EXCEPT ![r].count = IF add THEN Max(1, @ + 1) ELSE Max(0, @ - 1)]

\* POST (add) and DELETE /messages/{id}/reactions of handle, for a session of
\* username; a body that is not JSON is read as {}
DbReact(username, mid, body, add) ==
  LET i == DbFind(mid)
  IN /\ IF ~HasEmoji(body)
          THEN last' = Response("db_react", 400) /\ UNCHANGED <<dbMessages, reacted>>
          ELSE IF i = 0
          THEN last' = Response("db_react", 404) /\ UNCHANGED <<dbMessages, reacted>>
          ELSE /\ add => Reported(dbMessages[i], body.emoji) < MaxDbCount
               /\ dbMessages' = [dbMessages EXCEPT
                                   ![i].reactions = DbReacted(@, body.emoji, add)]
               /\ reacted' = Put(reacted, <<mid, body.emoji, username>>,
                                 IF add THEN "POST" ELSE "DELETE")
               /\ last' = [op |-> "db_react", status |-> 200, message_id |-> mid,
                           reactions |-> dbMessages'[i].reactions]
     /\ sent' = <<>>
     /\ UNCHANGED <<now, nextId, nextTicket, bunVars, dbNextSeq, dbTickets, storeVars, granted,
                    rooms, roomByName, countsHeap, roomCursors, dmCursors, storeCursors,
                    histVars, faultVars, hbVars, recVars, closeVars>>

NextDbReact ==
  \/ \E username \in Users, mid \in {BootMsg, BootMsg + 1}, body \in ReactBodies,
        add \in BOOLEAN : DbReact(username, mid, body, add)
  \/ \E username \in Users, body \in EditBodies : DbPatch(username, BootMsg, body)

SpecDbReact == Init /\ [][NextDbReact]_vars

\* C36: DB.react keeps one contribution per user: after any sequence of
\* react calls on a message, the count stored for an emoji equals the number
\* of distinct users who currently have that reaction (whose last served
\* request for it was an add), so a second add by the same user and a remove
\* by a user who never added leave the count unchanged.
C36_OneContribution ==
  \A i \in 1..Len(dbMessages), e \in Emojis :
     Reported(dbMessages[i], e) = Cardinality(LastAdded(dbMessages[i].message_id, e))

\* ------------------------------------------- concurrent edit, delete, react
NextRaces ==
  \/ AuthGuest
  \/ createRoom(Owner)
  \/ \E room \in Rooms : PostRoomBegin(1, Owner, room)
  \/ PostRoomFinish(1, [text |-> "hi"])
  \/ \E h \in Handlers, mid \in 1..MaxReactMsgs : PatchBegin(h, Owner, mid)
  \/ \E h \in Handlers : PatchFinish(h, [text |-> "new"])
  \/ \E mid \in 1..MaxReactMsgs : DeleteMessage(Owner, mid)
  \/ \E h \in Handlers, caller \in Users, mid \in 1..MaxReactMsgs :
        ReactBegin(h, caller, mid, "POST")
  \/ \E h \in Handlers : ReactFinish(h, [emoji |-> "a"])

SpecRaces == Init /\ [][NextRaces]_vars

\* C37: concurrent operations on one message are not lost: when PATCH, DELETE
\* and reaction requests on the same message interleave at their await points,
\* the stored message is the result of the completed operations in some serial
\* order; so a message whose DELETE completed keeps tombstone = true whatever
\* PATCH was waiting for its body, and the stored reactions count every user
\* whose reaction was recorded, whatever PATCH or DELETE was in flight.
C37_NoLostUpdate ==
  /\ [][\A r \in DOMAIN roomMessages : \A i \in 1..Len(roomMessages[r]) :
          roomMessages[r][i].tombstone => roomMessages'[r][i].tombstone]_vars
  /\ [](\A r \in DOMAIN roomMessages : \A i \in 1..Len(roomMessages[r]) :
          \A e \in Emojis :
             Reported(roomMessages[r][i], e)
                = Cardinality(LastAdded(roomMessages[r][i].message_id, e)))

\* ------------------------------------------------------------ DM reads
\* GET /dms/{user_id}/messages/backfill
GetDmBackfill(caller, peer, rawBefore, rawLimit) ==
  LET key == pairKey(caller, peer)
  IN /\ IF ~Authed(caller)
          THEN last' = Response("backfill_dm", 401) /\ UNCHANGED <<dmPairs, dmNextSeq>>
          ELSE /\ dmPairs' = EnsuredPairs(key)
               /\ dmNextSeq' = EnsuredNextSeq(key)
               /\ last' = Spread(Response("backfill_dm", 200),
                                 BackfillRead(EnsuredPairs(key)[key], rawBefore, rawLimit))
     /\ sent' = <<>>
     /\ UNCHANGED <<now, nextId, nextTicket, users, roomMembers, roomMessages, roomNextSeq,
                    hubVars, wsTickets, reqs, dbVars, storeVars, granted, extVars>>

\* GET /dms, the entry of one stream of the caller: the peer and the seq of the
\* last message, 0 when the stream is empty
PeerEntry(caller, key) ==
  [user_id |-> IF caller = key[1] THEN key[2] ELSE key[1],
   last_seq |-> IF Len(dmPairs[key]) > 0 THEN dmPairs[key][Len(dmPairs[key])].seq ELSE 0]

\* GET /dms: the peers of the caller's streams, in no order
GetDms(caller) ==
  /\ IF ~Authed(caller)
       THEN last' = Response("get_dms", 401)
       ELSE last' = [op |-> "get_dms", status |-> 200,
                     peers |-> {PeerEntry(caller, key) :
                                  key \in {k \in DOMAIN dmPairs : caller \in {k[1], k[2]}}}]
  /\ sent' = <<>>
  /\ UNCHANGED <<now, nextId, nextTicket, bunVars, dbVars, storeVars, granted, extVars>>

NextDmRead ==
  \/ AuthGuest
  \/ createRoom(Owner)
  \/ \E caller \in Users, room \in Rooms : PostRoomBegin(1, caller, room)
  \/ PostRoomFinish(1, [text |-> "hi"])
  \/ \E caller \in Callers, peer \in Users : PostDmBegin(1, caller, peer)
  \/ \E body \in PostBodies : PostDmFinish(1, body)
  \/ \E room \in Rooms, rawFrom \in RoundTripFrom : GetRoomMessages(room, rawFrom, Absent)
  \/ \E room \in Rooms, rawBefore \in RoundTripFrom : GetRoomBackfill(room, rawBefore, Absent)
  \/ \E caller \in Callers, room_id \in Rooms : GetRoomCursor(caller, room_id)
  \/ \E caller \in Callers, peer \in Users, rawFrom \in RoundTripFrom :
        GetDmMessages(caller, peer, rawFrom, Absent)
  \/ \E caller \in Callers, peer \in Users, rawBefore \in RoundTripFrom :
        GetDmBackfill(caller, peer, rawBefore, Absent)
  \/ \E caller \in Callers, peer \in Users : GetDmCursor(caller, peer)
  \/ \E caller \in Callers : GetDms(caller)

SpecDmRead == Init /\ [][NextDmRead]_vars

\* the state a read must leave alone: streams, counters, memberships, cursors
ReadFrame == <<roomMessages, roomNextSeq, dmPairs, dmNextSeq, roomMembers, roomCursors,
               dmCursors>>

\* C38: read operations leave the state unchanged: a GET of room or DM
\* messages, backfill or cursor changes no stream, counter, membership or
\* cursor; and no DM stream exists for a pair of users until the first message
\* between them has been posted, so GET /dms lists only peers with at least one
\* message.
C38_ReadsChangeNothing ==
  /\ [][\A caller \in Callers, peer \in Users, room \in Rooms, raw \in RoundTripFrom :
          ( \/ GetRoomMessages(room, raw, Absent)
            \/ GetRoomBackfill(room, raw, Absent)
            \/ GetRoomCursor(caller, room)
            \/ GetDmMessages(caller, peer, raw, Absent)
            \/ GetDmBackfill(caller, peer, raw, Absent)
            \/ GetDmCursor(caller, peer)
            \/ GetDms(caller) )
          => UNCHANGED ReadFrame]_vars
  /\ [](last.op = "get_dms" /\ last.status = 200
          => \A p \in last.peers : p.last_seq > 0)

\* ------------------------------------------------- addressing by message_id
NextAddress ==
  \/ AuthGuest
  \/ createRoom(Owner)
  \/ \E room \in Rooms : PostRoomBegin(1, Owner, room)
  \/ PostRoomFinish(1, [text |-> "hi"])
  \/ \E peer \in Users : PostDmBegin(1, Owner, peer)
  \/ PostDmFinish(1, [text |-> "hi"])
  \/ \E caller \in Callers, mid \in MsgIds : PatchBegin(1, caller, mid)
  \/ PatchFinish(1, [text |-> "new"])
  \/ \E caller \in Callers, mid \in MsgIds : DeleteMessage(caller, mid)
  \/ \E caller \in Callers, mid \in MsgIds : ReactBegin(1, caller, mid, "POST")
  \/ ReactFinish(1, [emoji |-> "a"])

SpecAddress == Init /\ [][NextAddress]_vars

\* the ids of the messages stored in a room stream or in a DM stream
StoredIds ==
  UNION {{roomMessages[r][i].message_id : i \in 1..Len(roomMessages[r])} :
           r \in DOMAIN roomMessages}
  \cup UNION {{dmPairs[k][i].message_id : i \in 1..Len(dmPairs[k])} : k \in DOMAIN dmPairs}

\* C39: every message created by a post, in a room stream or in a DM stream,
\* is addressable by its message_id: edit, delete and react on the id of an
\* existing message act on it (or answer unauthorized or forbidden) and answer
\* not_found only for ids of messages that do not exist.
C39_Addressable ==
  [][\A caller \in Callers, mid \in MsgIds :
       ( \/ PatchBegin(1, caller, mid)
         \/ DeleteMessage(caller, mid)
         \/ ReactBegin(1, caller, mid, "POST") )
       => (last'.status = 404 => mid \notin StoredIds)]_vars

\* ----------------------------------------------------------- disclosure
PrivateRoom == [name |-> "p", visibility |-> "private"]

NextDisclose ==
  \/ AuthGuest
  \/ PostRooms(Owner, PrivateRoom, MaxRooms)
  \/ \E hdr \in Users : Rtm(hdr, NoTicket, NoUser, <<>>, TRUE, "")
  \/ \E s \in Sessions, subs \in SUBSET Rooms : Hello(s, subs, FALSE)
  \/ \E caller \in Users, room_id \in DOMAIN rooms : JoinRoom(caller, room_id)
  \/ \E caller \in Users, room_id \in DOMAIN rooms : LeaveRoom(caller, room_id)
  \/ \E room \in Rooms : PostRoomBegin(1, Owner, room)
  \/ PostRoomFinish(1, [text |-> "hi"])
  \/ \E room \in Rooms, rawFrom \in RoundTripFrom : GetRoomMessages(room, rawFrom, Absent)
  \/ \E room \in Rooms, rawBefore \in RoundTripFrom : GetRoomBackfill(room, rawBefore, Absent)

SpecDisclose == Init /\ [][NextDisclose]_vars

\* the members of a room
MembersOf(room) == IF room \in DOMAIN roomMembers THEN DOMAIN roomMembers[room] ELSE {}

\* C40: room traffic is disclosed to members only: a session receives event
\* frames of a room, and an HTTP forward or backfill read returns a room's
\* messages, only if the authenticated user is a member of that room at that
\* moment; a user who never joined or has left a private room obtains none of
\* its messages.
C40_MembersOnly ==
  /\ [](\A i \in 1..Len(sent) :
          (sent[i].type = "event.message.create" /\ sent[i].message.room_id # NoRoom)
             => sockets[sent[i].to].user_id \in MembersOf(sent[i].message.room_id))
  /\ [][\A caller \in Callers, room \in Rooms, raw \in RoundTripFrom :
          ( /\ \/ GetRoomMessages(room, raw, Absent)
               \/ GetRoomBackfill(room, raw, Absent)
            /\ last'.status = 200
            /\ last'.messages # <<>> )
          => caller \in MembersOf(room)]_vars

====
